---- MODULE Spec2Model ----
(***************************************************************************)
(* zerolist: an intrusive circular doubly-linked list whose nodes come     *)
(* from malloc (ZEROLIST_USE_MALLOC), from a fixed arena, from a fixed     *)
(* arena with malloc fallback (ZEROLIST_STATIC_FALLBACK_MALLOC) or from an *)
(* arena that grows by realloc (ZEROLIST_STATIC_DYNAMIC_EXPAND).           *)
(*                                                                         *)
(* Memory is a flat address space counted in units of one node.  Address 0 *)
(* is NULL, addresses 1..cfg.space hold the arena, the addresses above it  *)
(* hold the nodes handed out by malloc.  mem maps every allocated address  *)
(* to the node stored there; an address outside DOMAIN mem is not          *)
(* allocated, and touching it is undefined behaviour, recorded in fault.   *)
(***************************************************************************)
EXTENDS Integers, Sequences, FiniteSets, TLC

VARIABLES
    cfg,         \* the build configuration (the ZEROLIST_* macros), fixed per behaviour
    head,        \* Zerolist.head
    size,        \* Zerolist.size (ZEROLIST_SIZE_ENABLE), else 0
    node_buf,    \* Zerolist.node_buf, the address of slot 0
    max_nodes,   \* Zerolist.max_nodes
    free_top,    \* Zerolist.free_top
    free_stack,  \* Zerolist.free_stack, as a sequence; entry k of C is free_stack[k+1]
    mem,         \* allocated memory: address -> node
    fault,       \* TRUE once an operation has executed undefined behaviour or hangs
    ret,         \* the call that has just returned: its name, its result, the callback's arguments
    it           \* the loop of the caller that is running, if any

vars == <<cfg, head, size, node_buf, max_nodes, free_top, free_stack, mem, fault, ret, it>>

-----------------------------------------------------------------------------
(* Bounds of the model *)

\* number of distinct payload pointers the callers use (1..NData); 0 is NULL
NData == 2
\* addresses available to the arena (a static array, or the realloc'ed buffer)
ArenaSpace == 5
\* addresses available to malloc'ed nodes
HeapSlots == 4
\* largest max_nodes given to ZEROLIST_DEFINE / list_init_dynamic_expand
MaxInitCap == 3
\* largest max_nodes given to ZEROLIST_DEFINE when malloc fallback is enabled
MaxFallbackCap == 2
\* insertions are attempted only while fewer nodes than this are in the ring
MaxLive == 4

\* width in bits of ZEROLIST_TYPE (the source offers 8, 16, 32, ...; scaled down
\* so that saturation and wrap-around are reachable)
IndexBits == 2

TypeMod == 2 ^ cfg.bits
\* (ZEROLIST_TYPE)-1
TypeMax == TypeMod - 1
\* a cast to ZEROLIST_TYPE
Cast(x) == x % TypeMod

NULL == 0
\* the content of memory that was never written
Junk == -1
Payloads == 1 .. NData
\* the addresses the arena can lie at in this run
ArenaAddrs == 1 .. cfg.space
HeapAddrs == (cfg.space + 1) .. (cfg.space + HeapSlots)
\* a loop over the ring that has not come back after this many steps never will
MaxWalk == cfg.space + HeapSlots + 1

Modes == {"heap", "fixed", "fallback", "expand"}

Pure == cfg.mode \in {"fixed", "expand"}

Min(a, b) == IF a < b THEN a ELSE b

-----------------------------------------------------------------------------
(* The list as one value, so that operations compose *)

S == [head |-> head, size |-> size, node_buf |-> node_buf, max_nodes |-> max_nodes,
      free_top |-> free_top, free_stack |-> free_stack, mem |-> mem, fault |-> fault]

Node(d, p, n, u) == [data |-> d, prev |-> p, next |-> n, in_use |-> u]

Valid(L, a) == a \in DOMAIN L.mem

Fault(L) == [L EXCEPT !.fault = TRUE]

\* _ZEROLIST_NODE_IS_IN_USE
NodeIsInUse(L, a) == a # NULL /\ L.mem[a].in_use = 1

\* every slot of the arena below max_nodes is allocated memory
SlotsValid(L) == \A i \in 0 .. (L.max_nodes - 1) : Valid(L, L.node_buf + i)

_zerolist_is_static_node(L, node) ==
    IF cfg.mode = "heap" THEN FALSE
    ELSE /\ L.node_buf # NULL
         /\ node # NULL
         /\ node >= L.node_buf
         /\ node < L.node_buf + L.max_nodes

_zerolist_calc_node_index(L, node) ==
    IF node = NULL \/ L.node_buf = NULL THEN 0
    ELSE IF node < L.node_buf THEN 0
    ELSE Cast(node - L.node_buf)

\* malloc of one node: the lowest free heap address, NULL when the heap is used up
Malloc(L) ==
    LET free == {a \in HeapAddrs : a \notin DOMAIN L.mem}
    IN IF free = {} THEN NULL ELSE CHOOSE a \in free : \A b \in free : a <= b

\* free of one malloc'ed node
Free(L, a) == [L EXCEPT !.mem = [x \in (DOMAIN L.mem) \ {a} |-> L.mem[x]]]

-----------------------------------------------------------------------------
(* Node acquisition and release *)

\* _ZEROLIST_ALLOC_FROM_STACK
AllocFromStack(L) ==
    IF L.free_top > 0
    THEN LET idx == L.free_stack[L.free_top]
         IN [L |-> [L EXCEPT !.free_top = L.free_top - 1],
             node |-> L.node_buf + idx, idx |-> idx]
    ELSE [L |-> L, node |-> NULL, idx |-> 0]

\* _ZEROLIST_ALLOC_FROM_SEARCH if the scan ran from the last slot down
AllocFromSearch_Highest(L) ==
    LET free == {i \in 0 .. (L.max_nodes - 1) : ~NodeIsInUse(L, L.node_buf + i)}
    IN IF free = {} THEN [L |-> L, node |-> NULL, idx |-> 0]
       ELSE LET i == CHOOSE i \in free : \A j \in free : i >= j
            IN [L |-> L, node |-> L.node_buf + i, idx |-> i]

\* _ZEROLIST_ALLOC_FROM_SEARCH
AllocFromSearch(L) ==
    LET free == {i \in 0 .. (L.max_nodes - 1) : ~NodeIsInUse(L, L.node_buf + i)}
    IN IF free = {} THEN [L |-> L, node |-> NULL, idx |-> 0]
       ELSE LET i == CHOOSE i \in free : \A j \in free : i <= j
            IN [L |-> L, node |-> L.node_buf + i, idx |-> i]

\* TryAllocStatic without the exhaustion test: a full arena hands out slot 0 again
TryAllocStatic_ReuseSlot(L) ==
    LET a == IF cfg.fast THEN AllocFromStack(L) ELSE AllocFromSearch(L)
    IN IF a.node = NULL /\ L.max_nodes > 0
       THEN [L |-> L, node |-> L.node_buf, idx |-> 0]
       ELSE a

\* _ZEROLIST_TRY_ALLOC_STATIC
TryAllocStatic(L) == IF cfg.fast THEN AllocFromStack(L) ELSE AllocFromSearch(L)

\* _ZEROLIST_FREE_TO_STACK
FreeToStack(L, idx) ==
    IF Len(L.free_stack) > 0 /\ L.free_top < L.max_nodes /\ idx < L.max_nodes
    THEN [L EXCEPT !.free_stack[L.free_top + 1] = idx, !.free_top = L.free_top + 1]
    ELSE L

\* _ZEROLIST_FREE_STATIC_NODE without _ZEROLIST_NODE_SET_FREE
FreeStaticNode_KeepFlag(L, node, idx) ==
    LET L1 == [L EXCEPT !.mem[node] = Node(NULL, node, node, 1)]
    IN IF cfg.fast THEN FreeToStack(L1, idx) ELSE L1

\* _ZEROLIST_FREE_STATIC_NODE
FreeStaticNode(L, node, idx) ==
    LET L1 == [L EXCEPT !.mem[node] = Node(NULL, node, node, 0)]
    IN IF cfg.fast THEN FreeToStack(L1, idx) ELSE L1

\* zerolist_free_node without the address-range test: every node is taken for
\* an arena slot
zerolist_free_node_NoRangeTest(L, node) ==
    IF ~Valid(L, node) THEN Fault(L)
    ELSE IF cfg.mode = "heap" THEN Free(L, node)
    ELSE FreeStaticNode(L, node, _zerolist_calc_node_index(L, node))

\* zerolist_free_node, for node # NULL
zerolist_free_node(L, node) ==
    IF ~Valid(L, node) THEN Fault(L)
    ELSE IF cfg.mode = "heap" THEN Free(L, node)
    ELSE IF cfg.mode = "fallback"
    THEN IF _zerolist_is_static_node(L, node)
         THEN FreeStaticNode(L, node, _zerolist_calc_node_index(L, node))
         ELSE Free(L, node)
    ELSE FreeStaticNode(L, node, _zerolist_calc_node_index(L, node))

-----------------------------------------------------------------------------
(* realloc of the arena and the rebasing of the links *)

\* the addresses of the arena block that is allocated now
ArenaBlock(L) == {a \in ArenaAddrs : a \in DOMAIN L.mem}

\* the addresses realloc(ptr, n nodes) can return for the block at ptr; none
\* means it returns NULL.  The block stays in place, or moves to room apart
\* from it; it moves to addresses it shares with the old block only where the
\* platform's realloc can do that.
ReallocBases(L, ptr, n) ==
    LET fits == {b \in ArenaAddrs : b + n - 1 <= cfg.space}
        apart == {b \in fits : (b .. (b + n - 1)) \cap ArenaBlock(L) = {}}
    IN {b \in fits :
          \/ b = ptr
          \/ b \in apart
          \/ cfg.overlap /\ b \notin apart}

\* the memory after realloc(ptr, n nodes) returned nb: the block's content is
\* copied up to the smaller size, the rest is uninitialised, the old block is freed
Realloc(L, ptr, n, nb) ==
    LET old == ArenaBlock(L)
        new == nb .. (nb + n - 1)
        keep == (DOMAIN L.mem) \ old
    IN [L EXCEPT !.mem =
          [a \in keep \cup new |->
             IF a \in keep THEN L.mem[a]
             ELSE IF (ptr + (a - nb)) \in old THEN L.mem[ptr + (a - nb)]
             ELSE Node(Junk, Junk, Junk, Junk)]]

\* the do-while loop of _zerolist_update_node_pointers, at node cur
RECURSIVE UpdateLoop(_, _, _, _, _, _)
UpdateLoop(L, cur, old_buf, new_buf, new_size, fuel) ==
    IF fuel = 0 \/ ~Valid(L, cur) THEN Fault(L)
    ELSE LET cur_idx == Cast(cur - new_buf)
             p0 == Cast(L.mem[cur].prev - old_buf)
             n0 == Cast(L.mem[cur].next - old_buf)
             prev_idx == IF p0 >= new_size THEN cur_idx ELSE p0
             next_idx == IF n0 >= new_size THEN cur_idx ELSE n0
             L1 == [L EXCEPT !.mem[cur].prev = new_buf + prev_idx,
                             !.mem[cur].next = new_buf + next_idx]
             nxt == new_buf + next_idx
         IN IF nxt = L1.head THEN L1
            ELSE UpdateLoop(L1, nxt, old_buf, new_buf, new_size, fuel - 1)

\* _zerolist_update_node_pointers without the rebasing of head and links
UpdatePointers_NoRebase(L, old_buf, new_buf, old_size, new_size) ==
    [L EXCEPT !.node_buf = new_buf]

\* _zerolist_update_node_pointers; L.mem is the memory after the realloc
_zerolist_update_node_pointers(L, old_buf, new_buf, old_size, new_size) ==
    LET L1 == [L EXCEPT !.node_buf = new_buf]
    IN IF new_buf = old_buf \/ L.head = NULL THEN L1
       ELSE LET head_idx == Cast(L.head - old_buf)
                L2 == [L1 EXCEPT !.head = new_buf + head_idx]
            IN UpdateLoop(L2, L2.head, old_buf, new_buf, new_size, MaxWalk)

\* _zerolist_rollback_realloc; rb is what the realloc returns (NULL: it failed)
_zerolist_rollback_realloc(L, new_buf, old_buf, old_size, new_size, rb) ==
    IF rb = NULL THEN [L |-> L, ok |-> FALSE]
    ELSE LET L1 == Realloc(L, new_buf, old_size, rb)
             L2 == IF rb # new_buf /\ L1.head # NULL
                   THEN _zerolist_update_node_pointers(L1, new_buf, rb, new_size, old_size)
                   ELSE L1
         IN [L |-> [L2 EXCEPT !.node_buf = rb], ok |-> TRUE]

\* the loop of _zerolist_expand_buffer that initialises the slots old_size..new_size-1
RECURSIVE InitNewSlots(_, _, _)
InitNewSlots(L, i, new_size) ==
    IF i >= new_size THEN L
    ELSE LET L1 == [L EXCEPT !.mem[L.node_buf + i].in_use = 0]
             L2 == IF cfg.fast
                   THEN [L1 EXCEPT !.free_stack[L.free_top + 1] = i,
                                   !.free_top = L.free_top + 1]
                   ELSE L1
         IN InitNewSlots(L2, i + 1, new_size)

\* realloc of the free stack to n entries
ReallocStack(fs, n) == [k \in 1 .. n |-> IF k <= Len(fs) THEN fs[k] ELSE Junk]

\* the end of _zerolist_expand_buffer and of zerolist_shrink_buffer when the
\* realloc of the free stack failed: r is what _zerolist_rollback_realloc did
AfterRollback(r, old_buf) ==
    IF r.ok THEN [L |-> r.L, ok |-> FALSE]
    ELSE [L |-> [r.L EXCEPT !.node_buf = old_buf], ok |-> FALSE]

\* _zerolist_expand_buffer after _zerolist_update_node_pointers left the list L2
ExpandUpdated(L2, old_buf, old_size, new_buf, new_size, o) ==
    IF L2.fault THEN [L |-> L2, ok |-> FALSE]
    ELSE IF cfg.fast /\ ~o.sok
    THEN AfterRollback(_zerolist_rollback_realloc(L2, new_buf, old_buf, old_size, new_size, o.rb),
                       old_buf)
    ELSE [L |-> [InitNewSlots(IF cfg.fast
                              THEN [L2 EXCEPT !.free_stack = ReallocStack(L2.free_stack, new_size)]
                              ELSE L2,
                              old_size, new_size)
                   EXCEPT !.max_nodes = new_size],
          ok |-> TRUE]

\* _zerolist_expand_buffer; o.nb is what the realloc of the node buffer returns,
\* o.sok whether the realloc of the free stack succeeds, o.rb what the rollback
\* realloc returns
_zerolist_expand_buffer(L, new_size, o) ==
    IF new_size <= L.max_nodes THEN [L |-> L, ok |-> FALSE]
    ELSE IF ~Valid(L, L.node_buf) THEN [L |-> Fault(L), ok |-> FALSE]
    ELSE IF o.nb = NULL THEN [L |-> L, ok |-> FALSE]
    ELSE ExpandUpdated(
           _zerolist_update_node_pointers(Realloc(L, L.node_buf, new_size, o.nb),
                                          L.node_buf, o.nb, L.max_nodes, new_size),
           L.node_buf, L.max_nodes, o.nb, new_size, o)

\* the initialisation of an acquired arena node at the end of _zerolist_alloc_node
InitNode(L, node) == [L EXCEPT !.mem[node] = Node(NULL, node, node, 1)]

\* the end of _zerolist_alloc_node: a is what _ZEROLIST_TRY_ALLOC_STATIC gave
Acquired(a) ==
    IF a.node = NULL THEN [L |-> a.L, node |-> NULL]
    ELSE [L |-> InitNode(a.L, a.node), node |-> a.node]

\* _zerolist_alloc_node after _zerolist_expand_buffer returned e
AfterExpand(e) ==
    IF ~e.ok THEN [L |-> e.L, node |-> NULL] ELSE Acquired(TryAllocStatic(e.L))

\* a node from malloc; in_use is the flag _zerolist_alloc_node leaves in it
MallocNode(L, node, in_use) ==
    IF node = NULL THEN [L |-> L, node |-> NULL]
    ELSE [L |-> [L EXCEPT !.mem = (node :> Node(NULL, node, node, in_use)) @@ L.mem],
          node |-> node]

\* an exhausted arena that asks for twice max_nodes cast to ZEROLIST_TYPE,
\* without the saturation
ArenaExhausted_Wraps(L, o) ==
    IF cfg.mode = "expand"
    THEN AfterExpand(_zerolist_expand_buffer(L, Cast(L.max_nodes * 2), o))
    ELSE IF cfg.mode = "fallback" THEN MallocNode(L, Malloc(L), 1)
    ELSE [L |-> L, node |-> NULL]

\* _zerolist_alloc_node when the arena has no free slot
ArenaExhausted(L, o) ==
    IF cfg.mode = "expand"
    THEN IF Cast(L.max_nodes * 2) <= L.max_nodes /\ L.max_nodes = TypeMax
         THEN [L |-> L, node |-> NULL]
         ELSE AfterExpand(_zerolist_expand_buffer(
                            L,
                            IF Cast(L.max_nodes * 2) <= L.max_nodes
                            THEN TypeMax ELSE Cast(L.max_nodes * 2),
                            o))
    ELSE IF cfg.mode = "fallback" THEN MallocNode(L, Malloc(L), 1)
    ELSE [L |-> L, node |-> NULL]

\* an allocation that, with malloc fallback, goes to malloc before the arena
AfterTryAlloc_HeapFirst(L, a, o) ==
    IF cfg.mode = "fallback" THEN MallocNode(L, Malloc(L), 1)
    ELSE IF a.node # NULL THEN Acquired(a) ELSE ArenaExhausted(L, o)

\* _zerolist_alloc_node after _ZEROLIST_TRY_ALLOC_STATIC returned a
AfterTryAlloc(L, a, o) ==
    IF a.node # NULL THEN Acquired(a) ELSE ArenaExhausted(L, o)

\* _zerolist_alloc_node: the list afterwards and the node, NULL on failure
_zerolist_alloc_node(L, o) ==
    IF cfg.mode = "heap" THEN MallocNode(L, Malloc(L), Junk)
    ELSE IF L.node_buf = NULL \/ L.max_nodes = 0 THEN [L |-> L, node |-> NULL]
    ELSE IF ~SlotsValid(L) THEN [L |-> Fault(L), node |-> NULL]
    ELSE AfterTryAlloc(L, TryAllocStatic(L), o)

-----------------------------------------------------------------------------
(* Walking the ring *)

\* what a walk yields when it touches unallocated memory or never ends
Bad == Junk - 1

\* the node reached from a by k steps along next
RECURSIVE Steps(_, _, _)
Steps(L, a, k) ==
    IF k = 0 THEN a
    ELSE IF ~Valid(L, a) THEN Bad
    ELSE Steps(L, L.mem[a].next, k - 1)

\* the nodes met from cur along next up to, not including, start
RECURSIVE RingFrom(_, _, _, _)
RingFrom(L, cur, start, fuel) ==
    IF fuel = 0 \/ ~Valid(L, cur) THEN <<Bad>>
    ELSE LET n == L.mem[cur].next
         IN IF n = start THEN <<cur>> ELSE <<cur>> \o RingFrom(L, n, start, fuel - 1)

\* the nodes of the ring in order from head; ends in Bad when the walk breaks
Ring(L) == IF L.head = NULL THEN <<>> ELSE RingFrom(L, L.head, L.head, MaxWalk)

RingOK(L) == \A k \in 1 .. Len(Ring(L)) : Ring(L)[k] # Bad

\* the first node from cur in ring order whose payload is in M: the loop
\* do { if (match) return cur; cur = cur->next; [if (!cur) break;] } while (cur != start)
RECURSIVE RingFind(_, _, _, _, _, _)
RingFind(L, cur, start, M, nullcheck, fuel) ==
    IF fuel = 0 \/ ~Valid(L, cur) THEN Bad
    ELSE IF L.mem[cur].data \in M THEN cur
    ELSE LET n == L.mem[cur].next
         IN IF n = NULL /\ nullcheck THEN NULL
            ELSE IF n = start THEN NULL
            ELSE RingFind(L, n, start, M, nullcheck, fuel - 1)

\* the first in-use slot at or after index i whose payload is in M: the loop
\* for (i = 0; i < max_nodes; ++i) if (IS_IN_USE(&node_buf[i]) && match) ...
RECURSIVE SlotFind(_, _, _)
SlotFind(L, i, M) ==
    IF i >= L.max_nodes THEN NULL
    ELSE IF ~Valid(L, L.node_buf + i) THEN Bad
    ELSE IF NodeIsInUse(L, L.node_buf + i) /\ L.mem[L.node_buf + i].data \in M
    THEN L.node_buf + i
    ELSE SlotFind(L, i + 1, M)

-----------------------------------------------------------------------------
(* Insertion *)

\* SpliceBefore without the statement pos->prev = node
SpliceBefore_NoBackLink(L, pos, node) ==
    IF ~Valid(L, pos) THEN Fault(L)
    ELSE LET L1 == [L EXCEPT !.mem[node].prev = L.mem[pos].prev]
             L2 == [L1 EXCEPT !.mem[node].next = pos]
             pp == L2.mem[pos].prev
         IN IF ~Valid(L2, pp) THEN Fault(L2)
            ELSE LET L3 == [L2 EXCEPT !.mem[pp].next = node]
                 IN IF pos = L3.head THEN [L3 EXCEPT !.head = node] ELSE L3

\* the splice of node before pos, statement by statement
SpliceBefore(L, pos, node) ==
    IF ~Valid(L, pos) THEN Fault(L)
    ELSE LET L1 == [L EXCEPT !.mem[node].prev = L.mem[pos].prev]
             L2 == [L1 EXCEPT !.mem[node].next = pos]
             pp == L2.mem[pos].prev
         IN IF ~Valid(L2, pp) THEN Fault(L2)
            ELSE LET L3 == [L2 EXCEPT !.mem[pp].next = node]
                     L4 == [L3 EXCEPT !.mem[pos].prev = node]
                 IN IF pos = L4.head THEN [L4 EXCEPT !.head = node] ELSE L4

\* the splice of node after pos, statement by statement
SpliceAfter(L, pos, node) ==
    IF ~Valid(L, pos) THEN Fault(L)
    ELSE LET L1 == [L EXCEPT !.mem[node].next = L.mem[pos].next]
             L2 == [L1 EXCEPT !.mem[node].prev = pos]
             pn == L2.mem[pos].next
         IN IF ~Valid(L2, pn) THEN Fault(L2)
            ELSE LET L3 == [L2 EXCEPT !.mem[pn].prev = node]
                 IN [L3 EXCEPT !.mem[pos].next = node]

\* list->size++ and list->size-- under ZEROLIST_SIZE_ENABLE
SizeInc(L) == IF cfg.sizeEn THEN [L EXCEPT !.size = Cast(L.size + 1)] ELSE L
\* a removal that leaves the counter alone
SizeDec_Forgotten(L) == L
SizeDec(L) == IF cfg.sizeEn THEN [L EXCEPT !.size = Cast(L.size - 1)] ELSE L

\* the position insert_internal uses after the allocation: in growable mode a
\* position that no longer lies in the arena is taken again from its index
RederivePos(L0, L1, pos) ==
    IF cfg.mode = "expand" /\ pos # NULL /\ _zerolist_is_static_node(L0, pos)
       /\ ~_zerolist_is_static_node(L1, pos)
    THEN L1.node_buf + Cast(pos - L0.node_buf)
    ELSE pos

\* the end of _zerolist_insert_internal: the counter, once the node is linked
Linked(L2) ==
    IF L2.fault THEN [L |-> L2, ok |-> FALSE] ELSE [L |-> SizeInc(L2), ok |-> TRUE]

\* _zerolist_insert_internal once node is allocated and holds its payload; pos is
\* the position after the re-derivation
LinkNode(L1, node, pos, before) ==
    IF L1.head = NULL
    THEN [L |-> [L1 EXCEPT !.head = node,
                           !.mem[node].next = node, !.mem[node].prev = node,
                           !.size = IF cfg.sizeEn THEN 1 ELSE 0],
          ok |-> TRUE]
    ELSE IF pos # NULL
    THEN Linked(IF before THEN SpliceBefore(L1, pos, node) ELSE SpliceAfter(L1, pos, node))
    ELSE IF before THEN Linked(SpliceBefore(L1, L1.head, node))
    ELSE IF ~Valid(L1, L1.head) THEN [L |-> Fault(L1), ok |-> FALSE]
    ELSE Linked(SpliceAfter(L1, L1.mem[L1.head].prev, node))

\* _zerolist_insert_internal after _zerolist_alloc_node returned a
InsertAllocated(L, a, pos, data, before) ==
    IF a.node = NULL THEN [L |-> a.L, ok |-> FALSE]
    ELSE LinkNode([a.L EXCEPT !.mem[a.node].data = data], a.node,
                  RederivePos(L, a.L, pos), before)

_zerolist_insert_internal(L, pos, data, before, o) ==
    InsertAllocated(L, _zerolist_alloc_node(L, o), pos, data, before)

zerolist_push_front(L, data, o) == _zerolist_insert_internal(L, L.head, data, TRUE, o)

\* push_back that links the node in front of head, as push_front does
zerolist_push_back_AtHead(L, data, o) == _zerolist_insert_internal(L, L.head, data, TRUE, o)

zerolist_push_back(L, data, o) == _zerolist_insert_internal(L, NULL, data, FALSE, o)

\* insert_before that links the new node behind the target
zerolist_insert_before_Behind(L, target_data, new_data, o) ==
    IF L.head = NULL THEN [L |-> L, ok |-> FALSE]
    ELSE LET cur == RingFind(L, L.head, L.head, {target_data}, FALSE, MaxWalk)
         IN IF cur = Bad THEN [L |-> Fault(L), ok |-> FALSE]
            ELSE IF cur = NULL THEN [L |-> L, ok |-> FALSE]
            ELSE _zerolist_insert_internal(L, cur, new_data, FALSE, o)

zerolist_insert_before(L, target_data, new_data, o) ==
    IF L.head = NULL THEN [L |-> L, ok |-> FALSE]
    ELSE LET cur == RingFind(L, L.head, L.head, {target_data}, FALSE, MaxWalk)
         IN IF cur = Bad THEN [L |-> Fault(L), ok |-> FALSE]
            ELSE IF cur = NULL THEN [L |-> L, ok |-> FALSE]
            ELSE _zerolist_insert_internal(L, cur, new_data, TRUE, o)

-----------------------------------------------------------------------------
(* Removal *)

_zerolist_detach_node(L, cur) ==
    IF cur = NULL THEN L
    ELSE IF ~Valid(L, cur) THEN Fault(L)
    ELSE IF L.mem[cur].next = cur THEN [L EXCEPT !.head = NULL]
    ELSE IF L.mem[cur].prev = NULL \/ L.mem[cur].next = NULL
    THEN IF cur = L.head THEN [L EXCEPT !.head = NULL] ELSE L
    ELSE IF ~Valid(L, L.mem[cur].prev) \/ ~Valid(L, L.mem[cur].next) THEN Fault(L)
    ELSE LET L1 == [L EXCEPT !.mem[L.mem[cur].prev].next = L.mem[cur].next]
             L2 == [L1 EXCEPT !.mem[L1.mem[cur].next].prev = L1.mem[cur].prev]
         IN IF cur = L2.head THEN [L2 EXCEPT !.head = L2.mem[cur].next] ELSE L2

\* detach, then release, as every removal does
DetachAndFree(L, cur) ==
    LET L1 == _zerolist_detach_node(L, cur)
    IN IF L1.fault THEN L1 ELSE zerolist_free_node(L1, cur)

zerolist_pop_front(L) ==
    IF L.head = NULL THEN [L |-> L, val |-> NULL]
    ELSE IF ~Valid(L, L.head) THEN [L |-> Fault(L), val |-> NULL]
    ELSE [L |-> DetachAndFree(SizeDec(L), L.head), val |-> L.mem[L.head].data]

\* pop_back that hands back the payload of head instead of the tail's
zerolist_pop_back_HeadPayload(L) ==
    IF L.head = NULL THEN [L |-> L, val |-> NULL]
    ELSE IF ~Valid(L, L.head) \/ ~Valid(L, L.mem[L.head].prev)
    THEN [L |-> Fault(L), val |-> NULL]
    ELSE LET node == L.mem[L.head].prev
         IN [L |-> DetachAndFree(SizeDec(L), node), val |-> L.mem[L.head].data]

zerolist_pop_back(L) ==
    IF L.head = NULL THEN [L |-> L, val |-> NULL]
    ELSE IF ~Valid(L, L.head) \/ ~Valid(L, L.mem[L.head].prev)
    THEN [L |-> Fault(L), val |-> NULL]
    ELSE LET node == L.mem[L.head].prev
         IN [L |-> DetachAndFree(SizeDec(L), node), val |-> L.mem[node].data]

\* a walk of index steps that does not notice that it is back at head
RECURSIVE WalkTo_AroundRing(_, _, _)
WalkTo_AroundRing(L, cur, k) ==
    IF k = 0 THEN cur
    ELSE IF ~Valid(L, cur) THEN Bad
    ELSE WalkTo_AroundRing(L, L.mem[cur].next, k - 1)

\* the walk of pop_at / remove_at: index steps from head, NULL when the walk
\* comes back to head
RECURSIVE WalkTo(_, _, _)
WalkTo(L, cur, k) ==
    IF k = 0 THEN cur
    ELSE IF ~Valid(L, cur) THEN Bad
    ELSE LET n == L.mem[cur].next
         IN IF n = L.head THEN NULL ELSE WalkTo(L, n, k - 1)

zerolist_pop_at(L, index) ==
    IF L.head = NULL THEN [L |-> L, val |-> NULL]
    ELSE IF cfg.sizeEn /\ index >= L.size THEN [L |-> L, val |-> NULL]
    ELSE LET cur == WalkTo(L, L.head, index)
         IN IF cur = NULL THEN [L |-> L, val |-> NULL]
            ELSE IF cur = Bad \/ ~Valid(L, cur) THEN [L |-> Fault(L), val |-> NULL]
            ELSE LET L1 == _zerolist_detach_node(L, cur)
                     L2 == IF L1.fault THEN L1 ELSE zerolist_free_node(SizeDec(L1), cur)
                 IN [L |-> L2, val |-> L.mem[cur].data]

zerolist_remove_at(L, index) ==
    IF L.head = NULL THEN [L |-> L, ok |-> FALSE]
    ELSE IF cfg.sizeEn /\ index >= L.size THEN [L |-> L, ok |-> FALSE]
    ELSE LET cur == WalkTo(L, L.head, index)
         IN IF cur = NULL THEN [L |-> L, ok |-> FALSE]
            ELSE IF cur = Bad \/ ~Valid(L, cur) THEN [L |-> Fault(L), ok |-> FALSE]
            ELSE LET L1 == DetachAndFree(L, cur)
                 IN [L |-> IF L1.fault THEN L1 ELSE SizeDec(L1), ok |-> ~L1.fault]

\* a removal that unlinks the matching node and never releases it
RemoveMatch_NoRelease(L, M) ==
    LET cur == IF Pure THEN SlotFind(L, 0, M)
               ELSE IF L.head = NULL THEN NULL
               ELSE RingFind(L, L.head, L.head, M, TRUE, MaxWalk)
    IN IF cur = NULL THEN [L |-> L, ok |-> FALSE]
       ELSE IF cur = Bad THEN [L |-> Fault(L), ok |-> FALSE]
       ELSE LET L1 == _zerolist_detach_node(L, cur)
            IN [L |-> IF L1.fault THEN L1 ELSE SizeDec(L1), ok |-> ~L1.fault]

\* the common body of remove_ptr and remove_if: M is the set of payloads that match
RemoveMatch(L, M) ==
    LET cur == IF Pure THEN SlotFind(L, 0, M)
               ELSE IF L.head = NULL THEN NULL
               ELSE RingFind(L, L.head, L.head, M, TRUE, MaxWalk)
    IN IF cur = NULL THEN [L |-> L, ok |-> FALSE]
       ELSE IF cur = Bad THEN [L |-> Fault(L), ok |-> FALSE]
       ELSE LET L1 == DetachAndFree(L, cur)
            IN [L |-> IF L1.fault THEN L1 ELSE SizeDec(L1), ok |-> ~L1.fault]

zerolist_remove_ptr(L, data) ==
    IF data = NULL THEN [L |-> L, ok |-> FALSE] ELSE RemoveMatch(L, {data})

\* cmp_func is NULL or a function, given by the set M of payloads it accepts
\* for the target
zerolist_remove_if(L, M, cmp_func) ==
    IF cmp_func = NULL THEN [L |-> L, ok |-> FALSE] ELSE RemoveMatch(L, M)

-----------------------------------------------------------------------------
(* Queries *)

\* the walk of zerolist_at: index steps along next, NULL at a NULL link
RECURSIVE AtWalk(_, _, _)
AtWalk(L, cur, k) ==
    IF k = 0 THEN cur
    ELSE IF ~Valid(L, cur) THEN Bad
    ELSE IF L.mem[cur].next = NULL THEN NULL
    ELSE AtWalk(L, L.mem[cur].next, k - 1)

\* zerolist_at: the payload, NULL on failure, Bad on undefined behaviour
zerolist_at(L, index) ==
    IF L.head = NULL THEN NULL
    ELSE IF cfg.sizeEn /\ index >= L.size THEN NULL
    ELSE LET cur == AtWalk(L, L.head, index)
         IN IF cur = NULL THEN NULL
            ELSE IF cur = Bad \/ ~Valid(L, cur) THEN Bad
            ELSE L.mem[cur].data

\* zerolist_find if the slot scan did not test _ZEROLIST_NODE_IS_IN_USE
zerolist_find_AnySlot(L, target_addr) ==
    IF Pure
    THEN LET hit == {i \in 0 .. (L.max_nodes - 1) :
                        Valid(L, L.node_buf + i) /\ L.mem[L.node_buf + i].data = target_addr}
         IN IF hit = {} THEN NULL
            ELSE L.node_buf + (CHOOSE i \in hit : \A j \in hit : i <= j)
    ELSE IF L.head = NULL THEN NULL
    ELSE RingFind(L, L.head, L.head, {target_addr}, TRUE, MaxWalk)

zerolist_find(L, target_addr) ==
    IF Pure THEN SlotFind(L, 0, {target_addr})
    ELSE IF L.head = NULL THEN NULL
    ELSE RingFind(L, L.head, L.head, {target_addr}, TRUE, MaxWalk)

\* the loop while (remaining--) of zerolist_search with the size counter
RECURSIVE SearchCounted(_, _, _, _)
SearchCounted(L, cur, remaining, M) ==
    IF remaining = 0 THEN NULL
    ELSE IF ~Valid(L, cur) THEN Bad
    ELSE IF L.mem[cur].data \in M THEN cur
    ELSE IF L.mem[cur].next = NULL THEN NULL
    ELSE SearchCounted(L, L.mem[cur].next, remaining - 1, M)

zerolist_search(L, M) ==
    IF Pure THEN SlotFind(L, 0, M)
    ELSE IF L.head = NULL THEN NULL
    ELSE IF cfg.sizeEn THEN SearchCounted(L, L.head, L.size, M)
    ELSE RingFind(L, L.head, L.head, M, TRUE, MaxWalk)

\* the payloads of the in-use slots from index i on, in slot order
RECURSIVE SlotPayloads(_, _)
SlotPayloads(L, i) ==
    IF i >= L.max_nodes THEN <<>>
    ELSE IF ~Valid(L, L.node_buf + i) THEN <<Bad>>
    ELSE IF NodeIsInUse(L, L.node_buf + i)
    THEN <<L.mem[L.node_buf + i].data>> \o SlotPayloads(L, i + 1)
    ELSE SlotPayloads(L, i + 1)

\* the payloads met from cur along next until start comes back or a link is NULL
RECURSIVE RingPayloadsFrom(_, _, _, _)
RingPayloadsFrom(L, cur, start, fuel) ==
    IF fuel = 0 \/ ~Valid(L, cur) THEN <<Bad>>
    ELSE LET n == L.mem[cur].next
         IN IF n = NULL \/ n = start THEN <<L.mem[cur].data>>
            ELSE <<L.mem[cur].data>> \o RingPayloadsFrom(L, n, start, fuel - 1)

\* zerolist_foreach without the test if (!list->head) return
zerolist_foreach_NoHeadTest(L) ==
    IF Pure THEN SlotPayloads(L, 0)
    ELSE RingPayloadsFrom(L, L.head, L.head, MaxWalk)

\* zerolist_foreach: the sequence of arguments the callback is called with
zerolist_foreach(L) ==
    IF Pure THEN SlotPayloads(L, 0)
    ELSE IF L.head = NULL THEN <<>>
    ELSE RingPayloadsFrom(L, L.head, L.head, MaxWalk)

zerolist_size(L) ==
    IF cfg.sizeEn THEN L.size
    ELSE IF L.head = NULL THEN 0
    ELSE Cast(Len(Ring(L)))

-----------------------------------------------------------------------------
(* reverse and clear *)

\* the do-while loop of zerolist_reverse at node cur
RECURSIVE ReverseLoop(_, _, _)
ReverseLoop(L, cur, fuel) ==
    IF fuel = 0 \/ ~Valid(L, cur) THEN Fault(L)
    ELSE LET tmp == L.mem[cur].next
             L1 == [L EXCEPT !.mem[cur].next = L.mem[cur].prev, !.mem[cur].prev = tmp]
         IN IF tmp = L.head THEN L1 ELSE ReverseLoop(L1, tmp, fuel - 1)

\* reverse that moves head to the tail and swaps no link
zerolist_reverse_HeadOnly(L) ==
    IF L.head = NULL THEN L
    ELSE IF ~Valid(L, L.head) THEN Fault(L)
    ELSE IF L.mem[L.head].next = L.head THEN L
    ELSE [L EXCEPT !.head = L.mem[L.head].prev]

\* reverse that swaps the links and leaves head where it was
zerolist_reverse_KeepHead(L) ==
    IF L.head = NULL THEN L
    ELSE IF ~Valid(L, L.head) THEN Fault(L)
    ELSE IF L.mem[L.head].next = L.head THEN L
    ELSE ReverseLoop(L, L.head, MaxWalk)

zerolist_reverse(L) ==
    IF L.head = NULL THEN L
    ELSE IF ~Valid(L, L.head) THEN Fault(L)
    ELSE IF L.mem[L.head].next = L.head THEN L
    ELSE LET old_tail == L.mem[L.head].prev
             L1 == ReverseLoop(L, L.head, MaxWalk)
         IN IF L1.fault THEN L1 ELSE [L1 EXCEPT !.head = old_tail]

\* the loop of zerolist_clear over the slots (arena without fallback)
RECURSIVE ClearSlots(_, _)
ClearSlots(L, i) ==
    IF i >= L.max_nodes THEN L
    ELSE IF ~Valid(L, L.node_buf + i) THEN Fault(L)
    ELSE ClearSlots([L EXCEPT !.mem[L.node_buf + i] =
                                 Node(NULL, L.node_buf + i, L.node_buf + i, 0)], i + 1)

\* the loop of zerolist_clear over the ring (malloc and fallback)
RECURSIVE ClearRing(_, _, _)
ClearRing(L, cur, fuel) ==
    IF cur = NULL THEN L
    ELSE IF fuel = 0 \/ ~Valid(L, cur) THEN Fault(L)
    ELSE LET next == L.mem[cur].next
             L1 == zerolist_free_node(L, cur)
         IN ClearRing(L1, IF next = L.head THEN NULL ELSE next, fuel - 1)

\* zerolist_clear if it also emptied the free stack
zerolist_clear_DropStack(L) ==
    LET L1 == IF Pure THEN ClearSlots(L, 0) ELSE ClearRing(L, L.head, MaxWalk)
    IN IF L1.fault THEN L1 ELSE [L1 EXCEPT !.head = NULL, !.size = 0, !.free_top = 0]

zerolist_clear(L) ==
    LET L1 == IF Pure THEN ClearSlots(L, 0) ELSE ClearRing(L, L.head, MaxWalk)
    IN IF L1.fault THEN L1 ELSE [L1 EXCEPT !.head = NULL, !.size = 0]

-----------------------------------------------------------------------------
(* Shrinking the growable arena *)

\* the loop of zerolist_shrink_buffer that rebuilds the free stack from the
\* in_use flags of the slots i..new_size-1
RECURSIVE RebuildStack(_, _, _)
RebuildStack(L, i, new_size) ==
    IF i >= new_size THEN L
    ELSE IF L.mem[L.node_buf + i].in_use = 0
    THEN RebuildStack([L EXCEPT !.free_stack[L.free_top + 1] = i,
                                !.free_top = L.free_top + 1], i + 1, new_size)
    ELSE RebuildStack(L, i + 1, new_size)

\* zerolist_shrink_buffer; o.nb is what the realloc of the node buffer returns,
\* o.sok whether the realloc of the free stack succeeds, o.rb what the rollback
\* realloc returns, o.freed whether a realloc to size 0 that returns NULL has
\* freed the block
zerolist_shrink_buffer(L, requested, o) ==
    LET used_nodes == zerolist_size(L)
        new_size == IF requested <= used_nodes THEN Cast(used_nodes * 2) ELSE requested
    IN IF ~cfg.sizeEn /\ ~RingOK(L) THEN [L |-> Fault(L), ok |-> FALSE]
       ELSE IF new_size >= L.max_nodes THEN [L |-> L, ok |-> TRUE]
       ELSE IF ~Valid(L, L.node_buf) THEN [L |-> Fault(L), ok |-> FALSE]
       ELSE IF o.nb = NULL
       THEN [L |-> IF o.freed THEN Realloc(L, L.node_buf, 0, L.node_buf) ELSE L,
             ok |-> FALSE]
       ELSE
         LET old_buf == L.node_buf
             old_size == L.max_nodes
             new_buf == o.nb
             L1 == Realloc(L, old_buf, new_size, new_buf)
             L2 == _zerolist_update_node_pointers(L1, old_buf, new_buf, old_size, new_size)
         IN IF L2.fault THEN [L |-> L2, ok |-> FALSE]
            ELSE IF cfg.fast /\ ~o.sok
            THEN AfterRollback(_zerolist_rollback_realloc(L2, new_buf, old_buf, old_size,
                                                          new_size, o.rb), old_buf)
            ELSE LET L3 == IF cfg.fast
                           THEN RebuildStack(
                                  [L2 EXCEPT !.free_stack = ReallocStack(L2.free_stack, new_size),
                                             !.free_top = 0], 0, new_size)
                           ELSE L2
                 IN [L |-> [L3 EXCEPT !.max_nodes = new_size], ok |-> TRUE]

-----------------------------------------------------------------------------
(* Construction *)

\* the build configurations zerolist.h accepts (its #error checks reject the rest)
\* bits is the width of ZEROLIST_TYPE; overlap tells whether the platform's
\* realloc can return a block that overlaps the one it frees, oom whether its
\* realloc can fail
Configs ==
    {c \in [mode : Modes, fast : BOOLEAN, sizeEn : BOOLEAN, bits : {IndexBits},
            space : {ArenaSpace}, overlap : BOOLEAN, oom : BOOLEAN] :
        c.mode = "heap" => ~c.fast}

\* the free stack zerolist_init_expand / list_init_dynamic_expand build:
\* free_stack[i] = max_nodes - 1 - i
InitStack(n) == [k \in 1 .. n |-> n - k]

\* list_init_dynamic: memset to zero
list_init_dynamic ==
    [head |-> NULL, size |-> 0, node_buf |-> NULL, max_nodes |-> 0, free_top |-> 0,
     free_stack |-> <<>>, mem |-> <<>>, fault |-> FALSE]

\* zerolist_init_expand over the static array ZEROLIST_DEFINE declares at buf
zerolist_init_expand(buf, n) ==
    [head |-> NULL, size |-> 0, node_buf |-> buf, max_nodes |-> n,
     free_top |-> IF cfg.fast THEN n ELSE 0,
     free_stack |-> IF cfg.fast THEN InitStack(n) ELSE <<>>,
     mem |-> [a \in buf .. (buf + n - 1) |-> Node(NULL, NULL, NULL, 0)],
     fault |-> FALSE]

\* list_init_dynamic_expand when malloc returned buf
list_init_dynamic_expand(buf, n) ==
    [head |-> NULL, size |-> 0, node_buf |-> buf, max_nodes |-> n,
     free_top |-> IF cfg.fast THEN n ELSE 0,
     free_stack |-> IF cfg.fast THEN InitStack(n) ELSE <<>>,
     mem |-> [a \in buf .. (buf + n - 1) |-> Node(Junk, Junk, Junk, 0)],
     fault |-> FALSE]

\* zerolist_destroy: clear, then in growable mode free the arena and the free
\* stack (free_top is left as it is), in the other arena modes empty the free stack
zerolist_destroy(L) ==
    LET L1 == zerolist_clear(L)
    IN IF L1.fault THEN L1
       ELSE IF cfg.mode = "heap" THEN L1
       ELSE IF cfg.mode = "expand"
       THEN [L1 EXCEPT !.mem = IF L1.node_buf = NULL THEN @
                               ELSE [a \in (DOMAIN L1.mem) \ ArenaBlock(L1) |-> L1.mem[a]],
                       !.node_buf = NULL, !.free_stack = <<>>, !.max_nodes = 0,
                       !.head = NULL, !.size = 0]
       ELSE IF cfg.fast /\ Len(L1.free_stack) > 0 THEN [L1 EXCEPT !.free_top = 0]
       ELSE L1

\* the loop of zerolist_reinit over the slots of a caller-owned arena
ReinitSlots(L) ==
    [L EXCEPT !.mem = [a \in DOMAIN L.mem |->
                         IF a >= L.node_buf /\ a < L.node_buf + L.max_nodes
                         THEN [L.mem[a] EXCEPT !.in_use = 0] ELSE L.mem[a]]]

\* zerolist_reinit that resets the slots and leaves the free stack empty
zerolist_reinit_NoStack(L, initial_size, buf) ==
    IF cfg.mode = "heap" THEN [L |-> [L EXCEPT !.head = NULL, !.size = 0], ok |-> TRUE]
    ELSE IF cfg.mode = "expand"
    THEN IF initial_size = 0 \/ buf = NULL THEN [L |-> L, ok |-> FALSE]
         ELSE [L |-> [list_init_dynamic_expand(buf, initial_size)
                        EXCEPT !.free_top = 0, !.mem = @ @@ L.mem],
               ok |-> TRUE]
    ELSE IF L.node_buf = NULL \/ L.max_nodes = 0 THEN [L |-> L, ok |-> FALSE]
    ELSE IF ~SlotsValid(L) THEN [L |-> Fault(L), ok |-> FALSE]
    ELSE [L |-> [ReinitSlots(L) EXCEPT !.head = NULL, !.size = 0], ok |-> TRUE]

\* zerolist_reinit; buf is what malloc returns for the new arena (growable mode)
zerolist_reinit(L, initial_size, buf) ==
    IF cfg.mode = "heap" THEN [L |-> [L EXCEPT !.head = NULL, !.size = 0], ok |-> TRUE]
    ELSE IF cfg.mode = "expand"
    THEN IF initial_size = 0 \/ buf = NULL THEN [L |-> L, ok |-> FALSE]
         ELSE [L |-> [list_init_dynamic_expand(buf, initial_size) EXCEPT !.mem = @ @@ L.mem],
               ok |-> TRUE]
    ELSE IF L.node_buf = NULL \/ L.max_nodes = 0 THEN [L |-> L, ok |-> FALSE]
    ELSE IF ~SlotsValid(L) THEN [L |-> Fault(L), ok |-> FALSE]
    ELSE IF cfg.fast
    THEN IF Len(L.free_stack) = 0
         THEN [L |-> [L EXCEPT !.head = NULL, !.size = 0], ok |-> TRUE]
         ELSE [L |-> [ReinitSlots(L) EXCEPT
                        !.head = NULL, !.size = 0,
                        !.free_top = L.max_nodes,
                        !.free_stack = [k \in 1 .. L.max_nodes |-> k - 1]],
               ok |-> TRUE]
    ELSE [L |-> [ReinitSlots(L) EXCEPT !.head = NULL, !.size = 0], ok |-> TRUE]

\* no call has returned a result that the caller has yet to take
NoCall == [op |-> "none", arg |-> <<>>, val |-> 0, cb |-> <<>>]

\* no ZEROLIST_FOR_EACH_SAFE loop is running
Idle == [pc |-> "idle", node |-> NULL, tmp |-> NULL, first |-> NULL,
         start |-> <<>>, seen |-> <<>>, stale |-> FALSE, i |-> 0]

\* the free stack fs with free_top entries on it: the code reads the top entry
\* and nothing above it, so what the entries above the top hold is not kept
Live(fs, top) == [k \in 1 .. Len(fs) |-> IF k <= top THEN fs[k] ELSE Junk]

\* the variables take the fields of L
Set(L) ==
    /\ head' = L.head
    /\ size' = L.size
    /\ node_buf' = L.node_buf
    /\ max_nodes' = L.max_nodes
    /\ free_top' = L.free_top
    /\ free_stack' = Live(L.free_stack, L.free_top)
    /\ mem' = L.mem
    /\ fault' = L.fault

\* the lists ZEROLIST_DEFINE + ZEROLIST_INIT produce; malloc hands the growable
\* arena the top of the arena space
Fresh ==
    IF cfg.mode = "heap" THEN {list_init_dynamic}
    ELSE IF cfg.mode = "expand"
    THEN {list_init_dynamic_expand(cfg.space - n + 1, n) : n \in 1 .. Min(MaxInitCap, TypeMax)}
    ELSE IF cfg.mode = "fallback"
    THEN {zerolist_init_expand(1, n) : n \in 1 .. Min(MaxFallbackCap, TypeMax)}
    ELSE {zerolist_init_expand(1, n) : n \in 1 .. Min(MaxInitCap, TypeMax)}

InitIn(C) ==
    /\ cfg \in C
    /\ \E L \in Fresh :
          /\ head = L.head
          /\ size = L.size
          /\ node_buf = L.node_buf
          /\ max_nodes = L.max_nodes
          /\ free_top = L.free_top
          /\ free_stack = L.free_stack
          /\ mem = L.mem
          /\ fault = L.fault
    /\ ret = NoCall
    /\ it = Idle

\* ZEROLIST_SIZE_ENABLE = 1, the default
Init == InitIn({c \in Configs : c.sizeEn /\ ~c.overlap /\ ~c.oom})

-----------------------------------------------------------------------------
(* What the allocator may answer during one insertion *)

\* the capacity _zerolist_alloc_node asks _zerolist_expand_buffer for
GrowSize(L) ==
    LET dbl == Cast(L.max_nodes * 2)
    IN IF dbl <= L.max_nodes THEN TypeMax ELSE dbl

\* an insertion into L will call _zerolist_expand_buffer
WillGrow(L) ==
    /\ cfg.mode = "expand"
    /\ L.node_buf # NULL /\ L.max_nodes # 0
    /\ SlotsValid(L)
    /\ TryAllocStatic(L).node = NULL
    /\ L.max_nodes # TypeMax

NoGrowth == [nb |-> NULL, sok |-> TRUE, rb |-> NULL]

\* realloc succeeds whenever the address space has room
Outcomes(L) ==
    IF ~WillGrow(L) THEN {NoGrowth}
    ELSE IF ReallocBases(L, L.node_buf, GrowSize(L)) = {} THEN {NoGrowth}
    ELSE {[nb |-> b, sok |-> TRUE, rb |-> NULL] : b \in ReallocBases(L, L.node_buf, GrowSize(L))}

\* realloc may also fail at every call
FaultyOutcomes(L) ==
    IF ~WillGrow(L) THEN {NoGrowth}
    ELSE {o \in [nb : ReallocBases(L, L.node_buf, GrowSize(L)) \cup {NULL},
                  sok : BOOLEAN, rb : ArenaAddrs \cup {NULL}] :
            \/ o.rb = NULL
            \/ /\ o.nb # NULL /\ ~o.sok
               /\ o.rb + L.max_nodes - 1 <= cfg.space
               /\ \/ o.rb = o.nb
                  \/ cfg.overlap
                  \/ (o.rb .. (o.rb + L.max_nodes - 1))
                        \cap (o.nb .. (o.nb + GrowSize(L) - 1)) = {}}

\* what the calls of realloc during one insertion into L return
Answers(L) == IF cfg.oom THEN FaultyOutcomes(L) ELSE Outcomes(L)

-----------------------------------------------------------------------------
(* Observations the properties are stated with *)

\* the nodes met from cur along prev up to, not including, start
RECURSIVE RingBackFrom(_, _, _, _)
RingBackFrom(L, cur, start, fuel) ==
    IF fuel = 0 \/ ~Valid(L, cur) THEN <<Bad>>
    ELSE LET n == L.mem[cur].prev
         IN IF n = start THEN <<cur>> ELSE <<cur>> \o RingBackFrom(L, n, start, fuel - 1)

\* the nodes of the ring in order from head along prev
RingBack(L) == IF L.head = NULL THEN <<>> ELSE RingBackFrom(L, L.head, L.head, MaxWalk)

\* the payloads of the ring in order from head
RingData(L) == [k \in 1 .. Len(Ring(L)) |->
                  IF Ring(L)[k] = Bad THEN Bad ELSE L.mem[Ring(L)[k]].data]

\* every node of the ring is allocated and its neighbours point back at it
LinksOK(L) ==
    /\ RingOK(L)
    /\ \A k \in 1 .. Len(Ring(L)) :
          LET a == Ring(L)[k]
          IN /\ Valid(L, L.mem[a].prev) /\ Valid(L, L.mem[a].next)
             /\ L.mem[L.mem[a].prev].next = a
             /\ L.mem[L.mem[a].next].prev = a

\* the number of arena slots whose in_use flag is set
InUseSlots(L) ==
    Cardinality({i \in 0 .. (L.max_nodes - 1) :
                   Valid(L, L.node_buf + i) /\ L.mem[L.node_buf + i].in_use = 1})

-----------------------------------------------------------------------------
(* The public operations as actions *)

B2I(b) == IF b THEN 1 ELSE 0

\* the caller can start an operation: the program has not crashed, it is not
\* inside a loop over the list and it has taken the result of its last call
Ready == ~fault /\ it.pc = "idle" /\ ret.op = "none"

\* the number of allocated nodes that are in use (every malloc'ed node is)
LiveCount ==
    Cardinality({a \in DOMAIN mem : a \in HeapAddrs \/ mem[a].in_use = 1})

\* zerolist.h documents ZEROLIST_TYPE as the type of the node index and of the
\* size counter, holding at most (ZEROLIST_TYPE)-1 nodes: callers stay within it
\* (without it the size counter wraps; an arena is never larger than that)
CanInsert == Ready /\ LiveCount < MaxLive /\ (Pure \/ LiveCount < TypeMax)

\* the call op(arg) turns the list into r.L and returns val
Mutate(op, arg, r, val) ==
    /\ Set(r.L)
    /\ ret' = [op |-> op, arg |-> arg, val |-> val, cb |-> <<>>]
    /\ UNCHANGED <<cfg, it>>

PushFront ==
    /\ CanInsert
    /\ \E d \in Payloads, o \in Answers(S) :
          LET r == zerolist_push_front(S, d, o) IN Mutate("push_front", <<d>>, r, B2I(r.ok))

PushBack ==
    /\ CanInsert
    /\ \E d \in Payloads, o \in Answers(S) :
          LET r == zerolist_push_back(S, d, o) IN Mutate("push_back", <<d>>, r, B2I(r.ok))

InsertBefore ==
    /\ CanInsert
    /\ \E t \in Payloads, d \in Payloads, o \in Answers(S) :
          LET r == zerolist_insert_before(S, t, d, o)
          IN Mutate("insert_before", <<t, d>>, r, B2I(r.ok))

PopFront ==
    /\ Ready
    /\ LET r == zerolist_pop_front(S) IN Mutate("pop_front", <<>>, r, r.val)

PopBack ==
    /\ Ready
    /\ LET r == zerolist_pop_back(S) IN Mutate("pop_back", <<>>, r, r.val)

PopAt ==
    /\ Ready
    /\ \E i \in 0 .. TypeMax :
          LET r == zerolist_pop_at(S, i) IN Mutate("pop_at", <<i>>, r, r.val)

RemoveAt ==
    /\ Ready
    /\ \E i \in 0 .. TypeMax :
          LET r == zerolist_remove_at(S, i) IN Mutate("remove_at", <<i>>, r, B2I(r.ok))

RemovePtr ==
    /\ Ready
    /\ \E d \in Payloads \cup {NULL} :
          LET r == zerolist_remove_ptr(S, d) IN Mutate("remove_ptr", <<d>>, r, B2I(r.ok))

RemoveIf ==
    /\ Ready
    /\ \E M \in SUBSET Payloads, cmp_func \in {NULL, 1} :
          /\ cmp_func = NULL => M = {}
          /\ LET r == zerolist_remove_if(S, M, cmp_func)
             IN Mutate("remove_if", <<M, cmp_func>>, r, B2I(r.ok))

Reverse ==
    /\ Ready
    /\ Mutate("reverse", <<>>, [L |-> zerolist_reverse(S)], 0)

Clear ==
    /\ Ready
    /\ Mutate("clear", <<>>, [L |-> zerolist_clear(S)], 0)

\* the caller takes the result of the call
Return ==
    /\ ret.op # "none"
    /\ ret' = NoCall
    /\ UNCHANGED <<cfg, head, size, node_buf, max_nodes, free_top, free_stack, mem, fault, it>>

Next ==
    \/ Return
    \/ PushFront
    \/ PushBack
    \/ InsertBefore
    \/ PopFront
    \/ PopBack
    \/ PopAt
    \/ RemoveAt
    \/ RemovePtr
    \/ RemoveIf
    \/ Reverse
    \/ Clear

Spec == Init /\ [][Next]_vars

-----------------------------------------------------------------------------
(* zerolist_foreach, observed through the arguments its callback receives *)

Foreach ==
    /\ Ready
    /\ ret' = [op |-> "foreach", arg |-> <<>>, val |-> 0, cb |-> zerolist_foreach(S)]
    /\ UNCHANGED <<cfg, head, size, node_buf, max_nodes, free_top, free_stack, mem, fault, it>>

NextQuery == Next \/ Foreach

SpecQuery == Init /\ [][NextQuery]_vars

-----------------------------------------------------------------------------
(* Access by index, with ZEROLIST_SIZE_ENABLE set to 1 and to 0 *)

At ==
    /\ Ready
    /\ \E i \in 0 .. TypeMax :
          /\ ret' = [op |-> "at", arg |-> <<i>>, val |-> zerolist_at(S, i), cb |-> <<>>]
          /\ UNCHANGED <<cfg, head, size, node_buf, max_nodes, free_top, free_stack,
                         mem, fault, it>>

NextIndex == Next \/ At

\* both settings of ZEROLIST_SIZE_ENABLE
InitIndex == InitIn({c \in Configs : ~c.overlap /\ ~c.oom})

SpecIndex == InitIndex /\ [][NextIndex]_vars

-----------------------------------------------------------------------------
(* zerolist_shrink_buffer on the growable arena *)

\* what the calls of realloc during zerolist_shrink_buffer(L, requested) return
ShrinkAnswers(L, requested) ==
    LET used_nodes == zerolist_size(L)
        new_size == IF requested <= used_nodes THEN Cast(used_nodes * 2) ELSE requested
    IN IF new_size >= L.max_nodes \/ ~Valid(L, L.node_buf)
       THEN {[nb |-> NULL, sok |-> TRUE, rb |-> NULL, freed |-> FALSE]}
       ELSE IF new_size = 0
       THEN {[nb |-> NULL, sok |-> TRUE, rb |-> NULL, freed |-> TRUE],
             [nb |-> L.node_buf, sok |-> TRUE, rb |-> NULL, freed |-> FALSE]}
       ELSE {[nb |-> b, sok |-> TRUE, rb |-> NULL, freed |-> FALSE] :
                b \in ReallocBases(L, L.node_buf, new_size)}

\* the ring is intact: it closes, its links agree, and with the counter enabled
\* size is its length
Intact(L) ==
    /\ LinksOK(L)
    /\ cfg.sizeEn => L.size = Len(Ring(L))

\* the caller shrinks a list that is intact
Shrink ==
    /\ Ready
    /\ cfg.mode = "expand"
    /\ Intact(S)
    /\ \E n \in 0 .. TypeMax : \E o \in ShrinkAnswers(S, n) :
          LET r == zerolist_shrink_buffer(S, n, o) IN Mutate("shrink", <<n>>, r, B2I(r.ok))

NextShrink ==
    \/ Return
    \/ PushFront
    \/ PushBack
    \/ PopFront
    \/ PopBack
    \/ Shrink

InitShrink == InitIn({c \in Configs : c.mode = "expand" /\ c.sizeEn /\ ~c.overlap /\ ~c.oom})

SpecShrink == InitShrink /\ [][NextShrink]_vars

-----------------------------------------------------------------------------
(* A ZEROLIST_FOR_EACH_SAFE loop whose body may remove the node it is given *)

\* the loop's initialisation: node_var = head, tmp_var = node_var->next, __first = head
ForEachSafeBegin ==
    /\ Ready
    /\ head # NULL
    /\ Valid(S, head)
    /\ it' = [pc |-> "body", node |-> head, tmp |-> mem[head].next, first |-> head,
              start |-> Ring(S), seen |-> <<>>, stale |-> FALSE, i |-> 0]
    /\ UNCHANGED <<cfg, head, size, node_buf, max_nodes, free_top, free_stack, mem, fault, ret>>

\* the node zerolist_remove_ptr(list, data) removes, NULL when it removes nothing
RemovePtrTarget(L, data) ==
    IF data = NULL THEN NULL
    ELSE IF Pure THEN SlotFind(L, 0, {data})
    ELSE IF L.head = NULL THEN NULL
    ELSE RingFind(L, L.head, L.head, {data}, TRUE, MaxWalk)

\* the loop's step after the body ran on L: node_var = (tmp_var == __first ?
\* NULL : tmp_var), tmp_var = (node_var ? node_var->next : NULL)
ForEachSafeAdvance(L, visited, stale) ==
    LET node == IF it.tmp = it.first THEN NULL ELSE it.tmp
    IN /\ Set(IF node # NULL /\ ~Valid(L, node) THEN Fault(L) ELSE L)
       /\ it' = [it EXCEPT !.pc = IF node = NULL THEN "done" ELSE "body",
                           !.node = node,
                           !.tmp = IF node # NULL /\ Valid(L, node)
                                   THEN L.mem[node].next ELSE NULL,
                           !.seen = visited,
                           !.stale = stale]

\* one pass of the body on node_var; the body reads node_var->data and either
\* keeps the node or removes it with zerolist_remove_ptr(list, node_var->data)
ForEachSafeBody ==
    /\ ~fault
    /\ it.pc = "body"
    /\ Len(it.seen) <= Len(it.start)
    /\ UNCHANGED <<cfg, ret>>
    /\ IF ~Valid(S, it.node)
       THEN /\ Set(Fault(S))
            /\ it' = [it EXCEPT !.seen = Append(it.seen, it.node), !.stale = TRUE]
       ELSE LET visited == Append(it.seen, it.node)
                stale == it.stale \/ ~(\E k \in 1 .. Len(Ring(S)) : Ring(S)[k] = it.node)
            IN \/ ForEachSafeAdvance(S, visited, stale)
               \/ /\ RemovePtrTarget(S, mem[it.node].data) = it.node
                  /\ ForEachSafeAdvance(zerolist_remove_ptr(S, mem[it.node].data).L,
                                        visited, stale)

\* the loop is left
ForEachSafeEnd ==
    /\ ~fault
    /\ it.pc = "done"
    /\ it' = Idle
    /\ UNCHANGED <<cfg, head, size, node_buf, max_nodes, free_top, free_stack, mem, fault, ret>>

NextLoop ==
    \/ Return
    \/ PushFront
    \/ PushBack
    \/ PopFront
    \/ ForEachSafeBegin
    \/ ForEachSafeBody
    \/ ForEachSafeEnd

SpecLoop == Init /\ [][NextLoop]_vars

\* the growable arena on a platform whose realloc can fail
InitFault == InitIn({c \in Configs : c.mode = "expand" /\ c.sizeEn /\ ~c.overlap /\ c.oom})

SpecFault == InitFault /\ [][Next]_vars

-----------------------------------------------------------------------------
(* Growth of the arena: the operations on the growable arena, and the loop *)
(* of example_dynamic_expand, which pushes 20 nodes into an arena of 4     *)

\* ZEROLIST_DEFINE(list, 4)
ExampleCap == 4
\* Person people[20]
ExampleCount == 20
\* the default ZEROLIST_TYPE, uint16_t
ExampleBits == 16
\* the arena address space the example runs in
ExampleSpace == 40

ExampleConfigs ==
    {c \in [mode : {"expand"}, fast : BOOLEAN, sizeEn : {TRUE}, bits : {ExampleBits},
            space : {ExampleSpace}, overlap : {FALSE}, oom : {FALSE}] : TRUE}

\* example_dynamic_expand after ZEROLIST_DEFINE and ZEROLIST_INIT, before its loop
ExampleInit ==
    /\ cfg \in ExampleConfigs
    /\ LET L == list_init_dynamic_expand(cfg.space - ExampleCap + 1, ExampleCap)
       IN /\ head = L.head
          /\ size = L.size
          /\ node_buf = L.node_buf
          /\ max_nodes = L.max_nodes
          /\ free_top = L.free_top
          /\ free_stack = L.free_stack
          /\ mem = L.mem
          /\ fault = L.fault
    /\ ret = NoCall
    /\ it = [Idle EXCEPT !.pc = "example"]

\* one turn of the loop: zerolist_push_back(&list, &people[i]), result ignored
ExamplePush ==
    /\ ~fault /\ it.pc = "example" /\ ret.op = "none"
    /\ it.i < ExampleCount
    /\ \E o \in Answers(S) :
          LET r == zerolist_push_back(S, it.i + 1, o)
          IN /\ Set(r.L)
             /\ ret' = [op |-> "push_back", arg |-> <<it.i + 1>>, val |-> B2I(r.ok),
                        cb |-> <<>>]
    /\ it' = [it EXCEPT !.i = it.i + 1]
    /\ UNCHANGED cfg

NextGrow == Next \/ ExamplePush

InitGrow ==
    \/ InitIn({c \in Configs : c.mode = "expand" /\ c.sizeEn /\ ~c.overlap /\ ~c.oom})
    \/ ExampleInit

SpecGrow == InitGrow /\ [][NextGrow]_vars

-----------------------------------------------------------------------------
(* The life cycle: zerolist_destroy, and zerolist_reinit right after it *)

Destroy ==
    /\ Ready
    /\ Mutate("destroy", <<>>, [L |-> zerolist_destroy(S)], 0)

\* what malloc returns for an arena of n slots: the top of the arena space when
\* it is free, NULL otherwise
MallocArena(L, n) ==
    IF cfg.mode = "expand" /\ n > 0 /\ n <= cfg.space
       /\ ((cfg.space - n + 1) .. cfg.space) \cap DOMAIN L.mem = {}
    THEN cfg.space - n + 1
    ELSE NULL

\* zerolist_reinit is called after zerolist_destroy, as its documentation requires
Reinit ==
    /\ ~fault /\ it.pc = "idle" /\ ret.op = "destroy"
    /\ \E n \in 0 .. Min(MaxInitCap, TypeMax) :
          LET r == zerolist_reinit(S, n, MallocArena(S, n))
          IN Mutate("reinit", <<n>>, r, B2I(r.ok))

NextLife == Next \/ Destroy \/ Reinit

SpecLife == Init /\ [][NextLife]_vars

-----------------------------------------------------------------------------
(* Lists that were never initialised, or were destroyed, in the arena builds *)

\* Zerolist dummy = { 0 }
ZeroFilled ==
    [head |-> NULL, size |-> 0, node_buf |-> NULL, max_nodes |-> 0, free_top |-> 0,
     free_stack |-> <<>>, mem |-> <<>>, fault |-> FALSE]

\* ZEROLIST_DEFINE(name, n) of the growable build, before ZEROLIST_INIT(name):
\* .head = NULL, .tail = NULL, .node_buf = NULL, .max_nodes = n, the rest zero
Defined(n) == [ZeroFilled EXCEPT !.max_nodes = n]

\* the lists a caller of an arena build can hold before any operation: a
\* zero-filled one, in the growable build a defined one, initialised or not
Declared ==
    IF cfg.mode = "expand"
    THEN {ZeroFilled} \cup {Defined(n) : n \in 1 .. Min(MaxInitCap, TypeMax)} \cup Fresh
    ELSE {ZeroFilled}

InitDeclared ==
    /\ cfg \in {c \in Configs : c.mode # "heap" /\ c.sizeEn /\ ~c.overlap /\ ~c.oom}
    /\ \E L \in Declared :
          /\ head = L.head
          /\ size = L.size
          /\ node_buf = L.node_buf
          /\ max_nodes = L.max_nodes
          /\ free_top = L.free_top
          /\ free_stack = L.free_stack
          /\ mem = L.mem
          /\ fault = L.fault
    /\ ret = NoCall
    /\ it = Idle

Find ==
    /\ Ready
    /\ \E d \in Payloads \cup {NULL} :
          /\ ret' = [op |-> "find", arg |-> <<d>>, val |-> zerolist_find(S, d), cb |-> <<>>]
          /\ UNCHANGED <<cfg, head, size, node_buf, max_nodes, free_top, free_stack,
                         mem, fault, it>>

Search ==
    /\ Ready
    /\ \E M \in SUBSET Payloads, cmp_func \in {NULL, 1} :
          /\ cmp_func = NULL => M = {}
          /\ ret' = [op |-> "search", arg |-> <<M, cmp_func>>,
                     val |-> IF cmp_func = NULL THEN NULL ELSE zerolist_search(S, M),
                     cb |-> <<>>]
          /\ UNCHANGED <<cfg, head, size, node_buf, max_nodes, free_top, free_stack,
                         mem, fault, it>>

NextDeclared == NextLife \/ Foreach \/ At \/ Find \/ Search

SpecDeclared == InitDeclared /\ [][NextDeclared]_vars

-----------------------------------------------------------------------------
(* Calls that pass NULL as the list pointer *)

\* the public functions; zerolist_shrink_buffer exists in the growable build only
PublicOps ==
    {"push_front", "push_back", "insert_before", "pop_front", "pop_back", "pop_at",
     "remove_ptr", "remove_if", "remove_at", "at", "find", "search", "foreach",
     "reverse", "clear", "destroy", "reinit", "size", "free_node"}
    \cup (IF cfg.mode = "expand" THEN {"shrink_buffer"} ELSE {})

\* what f(NULL, ...) does before it touches anything else: the value it returns,
\* and whether it reads a field through the NULL list pointer
NullListCall(f) ==
    IF f \in {"push_front", "push_back", "insert_before", "remove_ptr", "remove_if",
              "remove_at", "reinit"}
    THEN [val |-> B2I(FALSE), fault |-> FALSE]      \* if (!list ...) return false;
    ELSE IF f \in {"pop_front", "pop_back", "pop_at", "at", "find", "search"}
    THEN [val |-> NULL, fault |-> FALSE]            \* if (!list ...) return NULL;
    ELSE IF f \in {"foreach", "reverse", "clear", "destroy"}
    THEN [val |-> 0, fault |-> FALSE]               \* if (!list ...) return;
    ELSE IF f = "size"
    THEN [val |-> 0, fault |-> FALSE]               \* list ? list->size : 0
    ELSE IF f = "free_node"
    THEN [val |-> 0, fault |-> FALSE]               \* free_node(NULL, NULL): if (!node) return;
    \* zerolist_shrink_buffer: used_nodes = zerolist_size(NULL) is 0, then the
    \* test new_size >= list->max_nodes reads through list
    ELSE [val |-> Junk, fault |-> TRUE]

\* the caller passes NULL as the list (and NULL as the node of free_node)
NullCall ==
    /\ Ready
    /\ \E f \in PublicOps :
          LET r == NullListCall(f)
          IN /\ ret' = [op |-> "null_list", arg |-> <<f>>, val |-> r.val, cb |-> <<>>]
             /\ fault' = r.fault
    /\ UNCHANGED <<cfg, head, size, node_buf, max_nodes, free_top, free_stack, mem, it>>

NextNull == Next \/ NullCall

SpecNull == Init /\ [][NextNull]_vars

-----------------------------------------------------------------------------
(* zerolist_free_node called by the user on a node zerolist_find returned *)

\* node = zerolist_find(&list, target); if (node) zerolist_free_node(&list, node);
FreeFound ==
    /\ Ready
    /\ Intact(S)
    /\ \E target \in Payloads :
          LET node == zerolist_find(S, target)
          IN /\ node # NULL
             /\ node # Bad
             /\ Mutate("free_node", <<node>>, [L |-> zerolist_free_node(S, node)], 0)

\* the caller repeats zerolist_free_node(&list, node) on the pointer it holds
FreeAgain ==
    /\ ~fault
    /\ it.pc = "idle"
    /\ ret.op = "free_node"
    /\ Mutate("free_node_again", ret.arg, [L |-> zerolist_free_node(S, ret.arg[1])], 0)

\* the program is followed while its list is intact, and through the calls of
\* zerolist_free_node
NextRelease ==
    \/ Intact(S) /\ Return
    \/ Intact(S) /\ PushFront
    \/ Intact(S) /\ PushBack
    \/ Intact(S) /\ InsertBefore
    \/ Intact(S) /\ PopFront
    \/ Intact(S) /\ PopBack
    \/ Intact(S) /\ PopAt
    \/ Intact(S) /\ RemoveAt
    \/ Intact(S) /\ RemovePtr
    \/ Intact(S) /\ RemoveIf
    \/ Intact(S) /\ Reverse
    \/ Intact(S) /\ Clear
    \/ FreeFound
    \/ FreeAgain

SpecRelease == Init /\ [][NextRelease]_vars

-----------------------------------------------------------------------------
(* The free stack under all the operations that change the arena *)

\* one operation of each kind that takes slots from the arena or gives them
\* back; the program is followed while its list is intact
NextPool ==
    \/ Intact(S) /\ Return
    \/ Intact(S) /\ PushFront
    \/ Intact(S) /\ PushBack
    \/ Intact(S) /\ InsertBefore
    \/ Intact(S) /\ PopFront
    \/ Intact(S) /\ PopBack
    \/ Intact(S) /\ RemovePtr
    \/ Intact(S) /\ Clear
    \/ Intact(S) /\ Shrink
    \/ Intact(S) /\ Destroy
    \/ Intact(S) /\ Reinit

\* the builds with ZEROLIST_FAST_ALLOC
InitPool == InitIn({c \in Configs : c.fast /\ c.sizeEn /\ ~c.overlap /\ ~c.oom})

SpecPool == InitPool /\ [][NextPool]_vars

-----------------------------------------------------------------------------
(* The growable arena on a platform whose realloc can return a block that  *)
(* shares addresses with the block it frees                                 *)

InitOverlap == InitIn({c \in Configs : c.mode = "expand" /\ c.sizeEn /\ c.overlap /\ ~c.oom})

\* the program is followed while its list is intact
NextOverlap ==
    \/ Intact(S) /\ Return
    \/ Intact(S) /\ PushFront
    \/ Intact(S) /\ PushBack
    \/ Intact(S) /\ InsertBefore
    \/ Intact(S) /\ PopFront
    \/ Intact(S) /\ PopBack
    \/ Intact(S) /\ PopAt
    \/ Intact(S) /\ RemoveAt
    \/ Intact(S) /\ RemovePtr
    \/ Intact(S) /\ RemoveIf
    \/ Intact(S) /\ Reverse
    \/ Intact(S) /\ Clear

SpecOverlap == InitOverlap /\ [][NextOverlap]_vars

-----------------------------------------------------------------------------
(* More nodes than ZEROLIST_TYPE counts, where malloc supplies them *)

\* push_back when the list already holds (ZEROLIST_TYPE)-1 nodes or more
PushBackBeyond ==
    /\ Ready
    /\ ~Pure
    /\ LiveCount >= TypeMax
    /\ LiveCount < MaxLive
    /\ \E d \in Payloads, o \in Answers(S) :
          LET r == zerolist_push_back(S, d, o) IN Mutate("push_back", <<d>>, r, B2I(r.ok))

InitBeyond == InitIn({c \in Configs : c.mode \in {"heap", "fallback"} /\ c.sizeEn /\ ~c.overlap /\ ~c.oom})

\* the program while its list is intact
NextBeyond ==
    \/ Intact(S) /\ Return
    \/ Intact(S) /\ PushFront
    \/ Intact(S) /\ PushBack
    \/ Intact(S) /\ InsertBefore
    \/ Intact(S) /\ PopFront
    \/ Intact(S) /\ PopBack
    \/ Intact(S) /\ PopAt
    \/ Intact(S) /\ RemoveAt
    \/ Intact(S) /\ RemovePtr
    \/ Intact(S) /\ RemoveIf
    \/ Intact(S) /\ Reverse
    \/ Intact(S) /\ Clear
    \/ Intact(S) /\ At
    \/ Intact(S) /\ PushBackBeyond

SpecBeyond == InitBeyond /\ [][NextBeyond]_vars

-----------------------------------------------------------------------------
(* The operations that only read the list *)

\* the nodes the body of ZEROLIST_FOR_EACH runs on, for a body that changes
\* nothing: node_var = (node_var->next == __first ? NULL : node_var->next)
RECURSIVE ForEachFrom(_, _, _, _)
ForEachFrom(L, node_var, first, fuel) ==
    IF node_var = NULL THEN <<>>
    ELSE IF fuel = 0 \/ ~Valid(L, node_var) THEN <<Bad>>
    ELSE <<node_var>> \o ForEachFrom(L, IF L.mem[node_var].next = first THEN NULL
                                        ELSE L.mem[node_var].next, first, fuel - 1)

\* ZEROLIST_FOR_EACH(list_ptr, node_var) with a body that changes nothing
ZEROLIST_FOR_EACH(L) ==
    IF L.head # NULL THEN ForEachFrom(L, L.head, L.head, MaxWalk) ELSE <<>>

\* what a reading operation answers on L: its return value and what its
\* callback or loop body has seen
Answer(L, op, arg) ==
    CASE op = "at" -> [val |-> zerolist_at(L, arg[1]), cb |-> <<>>]
      [] op = "find" -> [val |-> zerolist_find(L, arg[1]), cb |-> <<>>]
      [] op = "search" -> [val |-> IF arg[2] = NULL THEN NULL ELSE zerolist_search(L, arg[1]),
                           cb |-> <<>>]
      [] op = "foreach" -> [val |-> 0, cb |-> zerolist_foreach(L)]
      [] op = "size" -> [val |-> zerolist_size(L), cb |-> <<>>]
      [] op = "for_each" -> [val |-> 0, cb |-> ZEROLIST_FOR_EACH(L)]

Size ==
    /\ Ready
    /\ ret' = [op |-> "size", arg |-> <<>>, val |-> zerolist_size(S), cb |-> <<>>]
    /\ UNCHANGED <<cfg, head, size, node_buf, max_nodes, free_top, free_stack, mem, fault, it>>

\* a whole ZEROLIST_FOR_EACH loop whose body only reads node_var
ForEach ==
    /\ Ready
    /\ ret' = [op |-> "for_each", arg |-> <<>>, val |-> 0, cb |-> ZEROLIST_FOR_EACH(S)]
    /\ UNCHANGED <<cfg, head, size, node_buf, max_nodes, free_top, free_stack, mem, fault, it>>

NextRead == Next \/ At \/ Find \/ Search \/ Foreach \/ Size \/ ForEach

SpecRead == InitIndex /\ [][NextRead]_vars

-----------------------------------------------------------------------------
(* Properties *)

\* C1: after any sequence of the public operations, in every allocation
\* strategy, every node reachable from head has prev.next = node and
\* next.prev = node, and from a non-empty list exactly size steps along next,
\* and likewise along prev, lead back to head for the first time.
C1_RingInvariant ==
    /\ ~fault
    /\ LinksOK(S)
    /\ head # NULL =>
          /\ Len(Ring(S)) = zerolist_size(S)
          /\ Len(RingBack(S)) = zerolist_size(S)
          /\ \A k \in 1 .. Len(RingBack(S)) : RingBack(S)[k] # Bad

\* an insertion before a node has made a ring of three nodes
C1_Witness ==
    /\ Len(Ring(S)) = 3
    /\ ret.op \in {"push_front", "insert_before"}
    /\ ret.val = 1

\* C2: with the size counter, the cached size is the number of nodes on the
\* ring, and head is NULL exactly when size is 0.
C2_SizeIsCount ==
    cfg.sizeEn =>
       /\ RingOK(S)
       /\ size = Len(Ring(S))
       /\ (head = NULL) <=> (size = 0)

\* the last node was popped: size went back to 0 and head to NULL
C2_Witness ==
    /\ cfg.sizeEn
    /\ ret.op \in {"pop_front", "pop_back", "pop_at"}
    /\ ret.val # NULL
    /\ size = 0 /\ head = NULL

\* the number of slots the next acquisitions can take from the arena
AvailableSlots(L) ==
    IF cfg.fast THEN L.free_top ELSE L.max_nodes - InUseSlots(L)

\* C3: in the arena configurations with a free stack, free_top plus the number
\* of slots whose in_use flag is set equals max_nodes after every operation.
C3_FreeStackAccounting ==
    (cfg.mode # "heap" /\ cfg.fast) => free_top + InUseSlots(S) = max_nodes

\* C4: after zerolist_clear the list is empty and every arena slot can be
\* acquired again (with a free stack, free_top = max_nodes).
C4_ClearRestoresCapacity ==
    ret.op = "clear" =>
       /\ head = NULL
       /\ size = 0
       /\ cfg.mode # "heap" => AvailableSlots(S) = max_nodes

PushOps == {"push_front", "push_back", "insert_before"}

\* seq without its k-th element
DropAt(seq, k) == [j \in 1 .. (Len(seq) - 1) |-> IF j < k THEN seq[j] ELSE seq[j + 1]]

\* the addresses of the slots of the arena
ArenaRange(L) == L.node_buf .. (L.node_buf + L.max_nodes - 1)

\* a step in which an insertion made the arena grow
GrowStep == cfg.mode = "expand" /\ max_nodes' > max_nodes

\* C5: a push that grows the arena keeps the nodes that were on the ring in
\* their order and in their slots: head and every link of a live node point at
\* a slot of the new buffer, the slot with the index the node had before.
C5_GrowthKeepsRing ==
    [][GrowStep =>
         /\ ~fault'
         /\ LinksOK(S')
         /\ \E k \in 1 .. Len(Ring(S')) :
               /\ Len(Ring(S')) = Len(Ring(S)) + 1
               /\ \A j \in 1 .. Len(Ring(S)) :
                     /\ DropAt(Ring(S'), k)[j] - node_buf' = Ring(S)[j] - node_buf
                     /\ mem'[DropAt(Ring(S'), k)[j]].data = mem[Ring(S)[j]].data
         /\ ArenaRange(S') \subseteq DOMAIN mem'
         /\ \A a \in ArenaRange(S') :
               mem'[a].in_use = 1 =>
                  mem'[a].prev \in ArenaRange(S') /\ mem'[a].next \in ArenaRange(S')
         /\ head' \in ArenaRange(S')
    ]_vars

\* the arena has grown to a buffer at another address with two nodes on the ring
C5_Witness ==
    /\ cfg.mode = "expand"
    /\ ret.op \in PushOps /\ ret.val = 1
    /\ Len(Ring(S)) = 3
    /\ max_nodes = 3
    /\ node_buf = 1

\* a step in which an insertion is tried on a fixed arena whose slots are all in use
FullPushStep ==
    /\ cfg.mode = "fixed"
    /\ InUseSlots(S) = max_nodes
    /\ ret'.op \in PushOps

\* C9: on a fixed arena whose slots are all in use, push_front, push_back and
\* insert_before return false and change nothing.
C9_FullArenaRejects ==
    [][FullPushStep =>
         /\ ret'.val = 0
         /\ UNCHANGED <<head, size, node_buf, max_nodes, free_top, free_stack, mem, fault>>
    ]_vars

\* a push was refused by a full fixed arena
C9_Witness ==
    /\ cfg.mode = "fixed"
    /\ InUseSlots(S) = max_nodes
    /\ Len(Ring(S)) = max_nodes
    /\ ret.op \in PushOps /\ ret.val = 0

\* a step in which an insertion called _zerolist_expand_buffer and returned false
FailedGrowStep ==
    /\ WillGrow(S)
    /\ ret'.op \in PushOps
    /\ ret'.val = 0

\* C6: when the growth of the arena fails (the realloc of the node buffer
\* fails, or the realloc of the free stack fails and the node buffer is rolled
\* back, the rollback failing too or not), max_nodes, free_top, size and the
\* ring are what they were, and node_buf, head and every link lie in one
\* allocated buffer.
C6_FailedGrowthKeepsState ==
    [][FailedGrowStep =>
         /\ ~fault'
         /\ max_nodes' = max_nodes
         /\ free_top' = free_top
         /\ size' = size
         /\ RingOK(S')
         /\ RingData(S') = RingData(S)
         /\ ArenaRange(S') \subseteq DOMAIN mem'
         /\ \A k \in 1 .. Len(Ring(S')) :
               /\ Ring(S')[k] \in ArenaRange(S')
               /\ mem'[Ring(S')[k]].prev \in ArenaRange(S')
               /\ mem'[Ring(S')[k]].next \in ArenaRange(S')
    ]_vars

\* C7: a ZEROLIST_FOR_EACH_SAFE loop whose body removes the node it is given,
\* for any choice of the nodes it removes, ends after it ran the body exactly
\* once on each node that was on the ring when it began, and never runs it on a
\* node that has been released.
C7_SafeLoopVisitsOnce ==
    it.pc # "idle" =>
       /\ ~fault
       /\ ~it.stale
       /\ Len(it.seen) <= Len(it.start)
       /\ \A k \in 1 .. Len(it.seen) : it.seen[k] = it.start[k]
       /\ it.pc = "done" => it.seen = it.start

\* a step in which zerolist_shrink_buffer returned true and made the arena
\* smaller, with room left for every node of the ring
ShrunkStep ==
    /\ ret'.op = "shrink"
    /\ ret'.val = 1
    /\ max_nodes' < max_nodes
    /\ max_nodes' >= Len(Ring(S))

\* C8: a zerolist_shrink_buffer that succeeds keeps the payloads of the ring in
\* their order, and head and every link resolve to an in-use node in a slot
\* below the new max_nodes, wherever the live nodes lay and whether or not
\* realloc moved the buffer.
C8_ShrinkKeepsRing ==
    [][ShrunkStep =>
         /\ ~fault'
         /\ RingOK(S')
         /\ RingData(S') = RingData(S)
         /\ ArenaRange(S') \subseteq DOMAIN mem'
         /\ \A k \in 1 .. Len(Ring(S')) :
               /\ Ring(S')[k] \in ArenaRange(S')
               /\ mem'[Ring(S')[k]].in_use = 1
               /\ mem'[Ring(S')[k]].prev \in ArenaRange(S')
               /\ mem'[Ring(S')[k]].next \in ArenaRange(S')
    ]_vars

\* C10: zerolist_foreach hands the callback the payload of every live node
\* once, in ring order from head, the order zerolist_at(0), zerolist_at(1), ...
\* gives, and changes nothing.
C10_ForeachRingOrder ==
    [][ret'.op = "foreach" =>
         /\ ret'.cb = RingData(S)
         /\ \A k \in 1 .. Len(ret'.cb) : ret'.cb[k] = zerolist_at(S, k - 1)
         /\ UNCHANGED <<head, size, node_buf, max_nodes, free_top, free_stack, mem, fault>>
    ]_vars

-----------------------------------------------------------------------------
(* Removal by position *)

\* the step is a call of one of the pops
PopStep == ret'.op \in {"pop_front", "pop_back", "pop_at"}

\* the position in the ring, counted from 1 at head, of the node the pop of this
\* step is aimed at
PopTarget ==
    IF ret'.op = "pop_front" THEN 1
    ELSE IF ret'.op = "pop_back" THEN Len(Ring(S))
    ELSE ret'.arg[1] + 1

\* the step has given node a back to the allocator: a malloc'ed node is freed,
\* an arena slot is marked free and, with the free stack, pushed onto it
ReleasedNow(a) ==
    IF _zerolist_is_static_node(S, a)
    THEN /\ a \in DOMAIN mem'
         /\ mem'[a].in_use = 0
         /\ cfg.fast => /\ free_top' = free_top + 1
                        /\ free_stack'[free_top'] = _zerolist_calc_node_index(S, a)
    ELSE a \notin DOMAIN mem'

\* C11: on a non-empty list pop_front returns the payload of head, pop_back the
\* payload of head.prev and pop_at(i), i below the size, the payload of the node
\* i steps from head; each removes exactly that node from the ring, releases it
\* to the allocator, decrements size and keeps the other nodes in their order
\* (head moves to the former second node only when head itself was removed).
C11_PopRemovesTarget ==
    [][(PopStep /\ head # NULL /\ PopTarget <= size) =>
         /\ ~fault'
         /\ ret'.val = RingData(S)[PopTarget]
         /\ ret'.val = mem[Steps(S, head, PopTarget - 1)].data
         /\ ret'.op = "pop_back" => ret'.val = mem[mem[head].prev].data
         /\ Ring(S') = DropAt(Ring(S), PopTarget)
         /\ RingData(S') = DropAt(RingData(S), PopTarget)
         /\ head' = IF PopTarget # 1 THEN head
                    ELSE IF size = 1 THEN NULL ELSE Ring(S)[2]
         /\ size' = size - 1
         /\ ReleasedNow(Ring(S)[PopTarget])
    ]_vars

\* pop_at(1) has taken the middle node out of a ring of three whose ends differ
C11_Witness ==
    /\ ret.op = "pop_at" /\ ret.arg = <<1>>
    /\ ret.val # NULL
    /\ Len(Ring(S)) = 2
    /\ RingData(S)[1] # RingData(S)[2]

-----------------------------------------------------------------------------
(* Insertion at the ends *)

\* which node of L the address a is: a slot of the arena, whose address changes
\* when the arena moves, or a malloc'ed node
NodeId(L, a) ==
    IF _zerolist_is_static_node(L, a) THEN <<"slot", a - L.node_buf>> ELSE <<"heap", a>>

\* the nodes of the ring of L in order from head
RingIds(L) == [k \in 1 .. Len(Ring(L)) |-> NodeId(L, Ring(L)[k])]

\* C12: after a successful push_front(x) the new node is head, at(0) is x and
\* every earlier element is one index further; after a successful push_back(x)
\* the new node is the tail head.prev, at(size-1) is x and head and the earlier
\* elements stay where they were; on an empty list either push gives a ring of
\* one self-linked node with size 1.
C12_PushEnds ==
    [][(ret'.op \in {"push_front", "push_back"} /\ ret'.val = 1) =>
         LET x == ret'.arg[1]
             n == Len(Ring(S))
         IN /\ ~fault'
            /\ RingOK(S')
            /\ size' = size + 1
            /\ ret'.op = "push_front" =>
                  /\ mem'[head'].data = x
                  /\ zerolist_at(S', 0) = x
                  /\ RingData(S') = <<x>> \o RingData(S)
                  /\ RingIds(S') = <<NodeId(S', head')>> \o RingIds(S)
                  /\ NodeId(S', head') \notin {RingIds(S)[k] : k \in 1 .. n}
                  /\ \A k \in 0 .. (n - 1) : zerolist_at(S', k + 1) = zerolist_at(S, k)
            /\ ret'.op = "push_back" =>
                  /\ mem'[mem'[head'].prev].data = x
                  /\ zerolist_at(S', size' - 1) = x
                  /\ RingData(S') = RingData(S) \o <<x>>
                  /\ RingIds(S') = RingIds(S) \o <<NodeId(S', mem'[head'].prev)>>
                  /\ NodeId(S', mem'[head'].prev) \notin {RingIds(S)[k] : k \in 1 .. n}
                  /\ head # NULL => NodeId(S', head') = NodeId(S, head)
                  /\ \A k \in 0 .. (n - 1) : zerolist_at(S', k) = zerolist_at(S, k)
            /\ head = NULL =>
                  /\ head' # NULL
                  /\ mem'[head'].next = head' /\ mem'[head'].prev = head'
                  /\ size' = 1
    ]_vars

\* push_back has put a third node behind two others
C12_Witness ==
    /\ ret.op = "push_back" /\ ret.val = 1
    /\ Len(Ring(S)) = 3
    /\ RingData(S)[3] = ret.arg[1]
    /\ RingData(S)[1] # ret.arg[1]

-----------------------------------------------------------------------------
(* Insertion before a payload *)

\* the first position of seq that holds a member of M, 0 when there is none
FirstMatch(seq, M) ==
    IF \E k \in 1 .. Len(seq) : seq[k] \in M
    THEN CHOOSE k \in 1 .. Len(seq) :
            /\ seq[k] \in M
            /\ \A j \in 1 .. (k - 1) : seq[j] \notin M
    ELSE 0

\* seq with x put in front of position k
InsertAt(seq, k, x) ==
    [j \in 1 .. (Len(seq) + 1) |-> IF j < k THEN seq[j] ELSE IF j = k THEN x ELSE seq[j - 1]]

\* C13: insert_before(target, new) links the new node immediately before the
\* first node, in ring order from head, whose payload equals target; when that
\* node is head the new node becomes head; on an empty list or without a match
\* it returns false and changes neither the list nor the allocator.
C13_InsertBeforeFirstMatch ==
    [][ret'.op = "insert_before" =>
         LET target == ret'.arg[1]
             new == ret'.arg[2]
             k == FirstMatch(RingData(S), {target})
         IN /\ ~fault'
            /\ (head = NULL \/ k = 0) =>
                  /\ ret'.val = 0
                  /\ UNCHANGED <<head, size, node_buf, max_nodes, free_top, free_stack, mem>>
            /\ ret'.val = 1 =>
                  /\ k # 0
                  /\ RingOK(S')
                  /\ RingData(S') = InsertAt(RingData(S), k, new)
                  /\ RingIds(S') = InsertAt(RingIds(S), k, RingIds(S')[k])
                  /\ RingIds(S')[k] \notin {RingIds(S)[j] : j \in 1 .. Len(Ring(S))}
                  /\ mem'[mem'[Ring(S')[k]].next].data = target
                  /\ k = 1 => mem'[head'].data = new
                  /\ k # 1 => NodeId(S', head') = NodeId(S, head)
                  /\ size' = size + 1
    ]_vars

\* insert_before has put a node into the middle of the ring, between head and
\* the node that holds the target
C13_Witness ==
    /\ ret.op = "insert_before" /\ ret.val = 1
    /\ ret.arg[1] # ret.arg[2]
    /\ RingData(S) = <<ret.arg[2], ret.arg[2], ret.arg[1]>>

-----------------------------------------------------------------------------
(* Removal by payload *)

\* the step is a call of remove_ptr or remove_if
RemoveStep == ret'.op \in {"remove_ptr", "remove_if"}

\* the payloads the call of this step matches: the data of remove_ptr, what
\* cmp_func accepts for remove_if, nothing for a NULL data or a NULL cmp_func
MatchSet ==
    IF ret'.op = "remove_ptr"
    THEN (IF ret'.arg[1] = NULL THEN {} ELSE {ret'.arg[1]})
    ELSE (IF ret'.arg[2] = NULL THEN {} ELSE ret'.arg[1])

\* the positions of the ring whose node matches
Matching == {k \in 1 .. Len(Ring(S)) : RingData(S)[k] \in MatchSet}

\* C14: remove_ptr and remove_if remove at most one node per call; they return
\* true exactly when some live node matches, and then one matching node has
\* left the ring and was released and size is one less; otherwise (no match, a
\* NULL data, a NULL cmp) they return false and nothing changes; removing again
\* a payload that one node held returns false.
C14_RemoveOneMatch ==
    [][RemoveStep =>
         /\ (ret'.op = "remove_ptr" /\ Cardinality(Matching) = 1) =>
               /\ ret'.val = 1
               /\ ~zerolist_remove_ptr(S', ret'.arg[1]).ok
               /\ zerolist_remove_ptr(S', ret'.arg[1]).L = S'
         /\ ~fault'
         /\ ret'.val = B2I(Matching # {})
         /\ ret'.val = 1 =>
               /\ \E k \in Matching :
                     /\ Ring(S') = DropAt(Ring(S), k)
                     /\ ReleasedNow(Ring(S)[k])
               /\ size' = size - 1
               /\ LiveCount' = LiveCount - 1
         /\ ret'.val = 0 =>
               UNCHANGED <<head, size, node_buf, max_nodes, free_top, free_stack, mem>>
    ]_vars

\* remove_if has taken one of two matching nodes out of a ring of three
C14_Witness ==
    /\ ret.op = "remove_if" /\ ret.val = 1
    /\ Len(Ring(S)) = 2
    /\ \E k \in 1 .. 2 : RingData(S)[k] \in ret.arg[1]
    /\ \E k \in 1 .. 2 : RingData(S)[k] \notin ret.arg[1]

\* C15: when several live nodes match, remove_ptr and remove_if remove the
\* first of them in ring order from head, in every allocation strategy and
\* wherever the nodes lie in the arena.
C15_RemoveFirstMatch ==
    [][(RemoveStep /\ Cardinality(Matching) >= 2) =>
         /\ ret'.val = 1
         /\ Ring(S') = DropAt(Ring(S), FirstMatch(RingData(S), MatchSet))
    ]_vars

-----------------------------------------------------------------------------
(* zerolist_reverse *)

\* C16: zerolist_reverse is an involution: a second call restores the head and
\* the ring order of every list, empty, of one node or longer; it allocates and
\* releases no node and leaves size and the free stack unchanged.
C16_ReverseInvolution ==
    [][ret'.op = "reverse" =>
         /\ ~fault'
         /\ zerolist_reverse(S').head = head
         /\ Ring(zerolist_reverse(S')) = Ring(S)
         /\ zerolist_reverse(S') = S
         /\ DOMAIN mem' = DOMAIN mem
         /\ \A a \in DOMAIN mem : /\ mem'[a].in_use = mem[a].in_use
                                  /\ mem'[a].data = mem[a].data
         /\ LiveCount' = LiveCount
         /\ UNCHANGED <<size, node_buf, max_nodes, free_top, free_stack>>
    ]_vars

\* a ring of three with different ends has been reversed
C16_Witness ==
    /\ ret.op = "reverse"
    /\ Len(Ring(S)) = 3
    /\ RingData(S)[1] # RingData(S)[3]

\* C17: after zerolist_reverse on n >= 2 nodes the former tail is head, the
\* former head is the tail, and the element at index i is the one that was at
\* index n-1-i; on an empty list or a single node nothing changes.
C17_ReverseOrder ==
    [][ret'.op = "reverse" =>
         LET n == Len(Ring(S))
         IN /\ n >= 2 =>
                  /\ RingOK(S')
                  /\ head' = Ring(S)[n]
                  /\ mem'[head'].prev = head
                  /\ Len(Ring(S')) = n
                  /\ \A i \in 0 .. (n - 1) :
                        /\ Ring(S')[i + 1] = Ring(S)[n - i]
                        /\ zerolist_at(S', i) = zerolist_at(S, n - 1 - i)
            /\ n <= 1 =>
                  UNCHANGED <<head, size, node_buf, max_nodes, free_top, free_stack, mem, fault>>
    ]_vars

\* a ring of three, now read <<2, 1, 1>>, has been reversed
C17_Witness ==
    /\ ret.op = "reverse"
    /\ RingData(S) = <<2, 1, 1>>
    /\ RingBack(S) = <<Ring(S)[1], Ring(S)[3], Ring(S)[2]>>

-----------------------------------------------------------------------------
(* Indices outside the list *)

\* C18: pop_at(index) and remove_at(index) with index at or above the number
\* of nodes, any index on an empty list included, return NULL / false and leave
\* the list and the allocator unchanged, with the cached size and, without it,
\* because the walk comes back to head before it reaches the index.
C18_IndexOutOfRange ==
    [][(ret'.op \in {"pop_at", "remove_at"} /\ ret'.arg[1] >= Len(Ring(S))) =>
         /\ ret'.val = 0
         /\ UNCHANGED <<head, size, node_buf, max_nodes, free_top, free_stack, mem, fault>>
    ]_vars

\* without the cached size, pop_at(3) on a ring of two has returned NULL
C18_Witness ==
    /\ ~cfg.sizeEn
    /\ ret.op = "pop_at" /\ ret.arg = <<3>>
    /\ ret.val = NULL
    /\ Len(Ring(S)) = 2

\* C19: zerolist_at(index) returns the payload of the node index steps from
\* head when index is below the number of nodes and NULL for every other
\* index, with ZEROLIST_SIZE_ENABLE 1 and 0 alike: it never goes around the ring
\* to return an element for an index outside the list.
C19_AtNeverWraps ==
    [][ret'.op = "at" =>
         LET index == ret'.arg[1]
         IN /\ index < Len(Ring(S)) => ret'.val = RingData(S)[index + 1]
            /\ index >= Len(Ring(S)) => ret'.val = NULL
    ]_vars

-----------------------------------------------------------------------------
(* Growth of the arena *)

\* the indices of the slots of L that are in use
UsedSlots(L) ==
    {i \in 0 .. (L.max_nodes - 1) :
        Valid(L, L.node_buf + i) /\ L.mem[L.node_buf + i].in_use = 1}

\* every slot of the growable arena holds a live node
ArenaFull == cfg.mode = "expand" /\ Cardinality(UsedSlots(S)) = max_nodes

\* twice max_nodes, at most the largest value of ZEROLIST_TYPE
Doubled == IF 2 * max_nodes > TypeMax THEN TypeMax ELSE 2 * max_nodes

\* C20: in growable mode a push on a full arena doubles max_nodes, saturating
\* at the largest value of ZEROLIST_TYPE instead of wrapping, and takes the new
\* node from the new slots; max_nodes never decreases or wraps through growth;
\* once max_nodes is that largest value and every slot is live, a push returns
\* false and changes nothing.  From capacity 4, 20 insertions leave capacity 4
\* after 4, 8 after 8, 16 after 16 and 32 at the end.
C20_GrowthDoublesAndSaturates ==
    [][/\ max_nodes' >= max_nodes
       /\ (ret'.op \in PushOps /\ ArenaFull) =>
             /\ ret'.val = 1 =>
                   /\ max_nodes < TypeMax
                   /\ max_nodes' = Doubled
                   /\ UsedSlots(S) \subseteq UsedSlots(S')
                   /\ Cardinality(UsedSlots(S') \ UsedSlots(S)) = 1
                   /\ UsedSlots(S') \ UsedSlots(S) \subseteq max_nodes .. (max_nodes' - 1)
             /\ ret'.val = 0 => max_nodes' = max_nodes
             /\ (ret'.op \in {"push_front", "push_back"} /\ max_nodes < TypeMax
                   /\ ReallocBases(S, node_buf, Doubled) # {}) => ret'.val = 1
             /\ max_nodes = TypeMax =>
                   /\ ret'.val = 0
                   /\ UNCHANGED <<head, size, node_buf, max_nodes, free_top, free_stack,
                                  mem, fault>>
       /\ (it'.pc = "example" /\ size' = it'.i) =>
             /\ it'.i = 4 => max_nodes' = 4
             /\ it'.i = 8 => max_nodes' = 8
             /\ it'.i = 16 => max_nodes' = 16
             /\ it'.i = ExampleCount => max_nodes' = 32
    ]_vars

\* a push has grown a full arena to the largest capacity a ZEROLIST_TYPE of
\* IndexBits bits can count, less than twice the slots in use before, and has
\* moved it from where ZEROLIST_INIT put it
C20_Witness ==
    /\ cfg.mode = "expand" /\ cfg.bits = IndexBits
    /\ ret.op \in {"push_front", "push_back"} /\ ret.val = 1
    /\ max_nodes = TypeMax
    /\ UsedSlots(S) = 0 .. (TypeMax - 1)
    /\ TypeMax < 2 * (TypeMax - 1)
    /\ node_buf # cfg.space - max_nodes + 1

-----------------------------------------------------------------------------
(* zerolist_shrink_buffer and the live node count *)

\* C21: zerolist_shrink_buffer never shrinks below the live node count: for
\* every live count n that ZEROLIST_TYPE can hold and every requested size,
\* max_nodes is at least n after the call; a request not larger than n is
\* raised to 2n, computed without wrap-around in the index type.
C21_ShrinkKeepsLiveCount ==
    [][ret'.op = "shrink" =>
         LET n == Len(Ring(S))
         IN /\ max_nodes' >= n
            /\ (ret'.arg[1] <= n /\ max_nodes' # max_nodes) => max_nodes' = 2 * n
    ]_vars

-----------------------------------------------------------------------------
(* The arena with malloc fallback *)

\* the operations that take one node out of the list
RemovalOps == {"pop_front", "pop_back", "pop_at", "remove_at", "remove_ptr", "remove_if"}

\* the nodes of the ring that this step took out of it
Removed == {Ring(S)[k] : k \in 1 .. Len(Ring(S))} \ {Ring(S')[k] : k \in 1 .. Len(Ring(S'))}

\* the in_use flags of the arena slots of L, slot 0 first
SlotFlags(L) == [i \in 0 .. (L.max_nodes - 1) |-> L.mem[L.node_buf + i].in_use]

\* C22: with malloc fallback, a release is routed by the address-range test
\* node_buf <= node < node_buf + max_nodes: a node inside the arena is marked
\* free and its slot index is pushed on the free stack; a node outside it is
\* heap-freed and free_top and every slot flag stay as they are; free_top plus
\* the live arena nodes is max_nodes throughout.
C22_ReleaseRoutedByAddress ==
    [][cfg.mode = "fallback" =>
         /\ cfg.fast => free_top' + InUseSlots(S') = max_nodes'
         /\ (ret'.op \in RemovalOps /\ Removed # {}) =>
               \A a \in Removed :
                  IF a \in ArenaRange(S)
                  THEN /\ mem'[a].in_use = 0
                       /\ DOMAIN mem' = DOMAIN mem
                       /\ cfg.fast => /\ free_top' = free_top + 1
                                      /\ free_stack'[free_top'] = a - node_buf
                  ELSE /\ a \notin DOMAIN mem'
                       /\ DOMAIN mem' = DOMAIN mem \ {a}
                       /\ free_top' = free_top
                       /\ SlotFlags(S') = SlotFlags(S)
    ]_vars

\* capacity 2 with the free stack: a removal has succeeded and left both arena
\* slots live, the free stack empty and no heap node, so it freed a heap node
C22_Witness ==
    /\ cfg.mode = "fallback" /\ cfg.fast
    /\ max_nodes = 2
    /\ ret.op \in RemovalOps /\ ret.val # 0
    /\ free_top = 0
    /\ Len(Ring(S)) = 2
    /\ DOMAIN mem = ArenaRange(S)

\* the nodes that this step put into the ring
Added == {Ring(S')[k] : k \in 1 .. Len(Ring(S'))} \ {Ring(S)[k] : k \in 1 .. Len(Ring(S))}

\* C23: with malloc fallback a push takes an arena slot whenever one is free
\* and a heap node only when every arena slot is in use; pushes never fail
\* because the arena is exhausted; after zerolist_clear the arena is free
\* again, so that the next max_nodes pushes are arena-backed.
C23_ArenaBeforeHeap ==
    [][cfg.mode = "fallback" =>
         /\ (ret'.op \in PushOps /\ ret'.val = 1) =>
               /\ Cardinality(Added) = 1
               /\ \A a \in Added :
                     IF InUseSlots(S) < max_nodes
                     THEN /\ a \in ArenaRange(S)
                          /\ InUseSlots(S') = InUseSlots(S) + 1
                          /\ DOMAIN mem' = DOMAIN mem
                     ELSE /\ a \notin ArenaRange(S)
                          /\ a \notin DOMAIN mem
                          /\ InUseSlots(S') = max_nodes
         /\ (ret'.op \in {"push_front", "push_back"}
               /\ (InUseSlots(S) < max_nodes \/ Malloc(S) # NULL)) => ret'.val = 1
         /\ ret'.op = "clear" =>
               /\ head' = NULL
               /\ InUseSlots(S') = 0
               /\ DOMAIN mem' = ArenaRange(S')
               /\ TryAllocStatic(S').node # NULL
               /\ cfg.fast => free_top' = max_nodes'
    ]_vars

\* the third push into an arena of two has succeeded with a node from malloc
C23_Witness ==
    /\ cfg.mode = "fallback"
    /\ max_nodes = 2
    /\ ret.op = "push_back" /\ ret.val = 1
    /\ Len(Ring(S)) = 3
    /\ mem[head].prev \notin ArenaRange(S)
    /\ InUseSlots(S) = 2

-----------------------------------------------------------------------------
(* Destroy and reinit *)

\* C24: after zerolist_destroy and a successful zerolist_reinit the list is
\* empty and usable with all bookkeeping reset: head NULL, size 0, every slot
\* free, the free stack holding every slot index once (free_top = max_nodes);
\* a caller-owned arena keeps its node_buf and max_nodes and nothing is
\* allocated; a growable arena gets a fresh buffer of initial_size slots, and
\* reinit with initial_size 0 fails.
C24_ReinitResets ==
    [][/\ (ret'.op = "destroy" /\ cfg.mode \in {"fixed", "fallback"}) =>
             /\ node_buf' = node_buf /\ max_nodes' = max_nodes
             /\ DOMAIN mem' = ArenaRange(S)
       /\ ret'.op = "reinit" =>
             /\ ~fault'
             /\ (cfg.mode = "expand" /\ ret'.arg[1] = 0) => ret'.val = 0
             /\ cfg.mode \in {"fixed", "fallback"} => ret'.val = 1
             /\ ret'.val = 1 =>
                   /\ head' = NULL /\ size' = 0
                   /\ cfg.mode # "heap" =>
                         /\ max_nodes' > 0
                         /\ SlotsValid(S')
                         /\ InUseSlots(S') = 0
                         /\ DOMAIN mem' = ArenaRange(S')
                         /\ _zerolist_alloc_node(S', NoGrowth).node # NULL
                         /\ cfg.fast =>
                               /\ free_top' = max_nodes'
                               /\ Len(free_stack') = max_nodes'
                               /\ {free_stack'[k] : k \in 1 .. free_top'}
                                     = 0 .. (max_nodes' - 1)
                   /\ cfg.mode \in {"fixed", "fallback"} =>
                         /\ node_buf' = node_buf /\ max_nodes' = max_nodes
                         /\ DOMAIN mem' = DOMAIN mem
                   /\ cfg.mode = "expand" =>
                         /\ DOMAIN mem = {}
                         /\ node_buf' # NULL
                         /\ max_nodes' = ret'.arg[1]
                   /\ zerolist_push_back(S', 1, NoGrowth).ok
    ]_vars

\* a fixed arena of three slots has been destroyed and initialised again: the
\* free stack is the one zerolist_reinit builds
C24_Witness ==
    /\ cfg.mode = "fixed" /\ cfg.fast
    /\ ret.op = "reinit" /\ ret.val = 1
    /\ max_nodes = 3
    /\ free_stack = <<0, 1, 2>>

\* C25: zerolist_clear on a list that is already empty (head NULL), as a second
\* clear in succession is, does not fault and leaves head NULL, size 0 and
\* the allocator state as it was: max_nodes, the buffer, free_top, the
\* contents of the free stack, the in_use flag of every slot and the set of
\* allocated nodes.
C25_ClearIdempotent ==
    [][(ret'.op = "clear" /\ head = NULL /\ size = 0)
          => /\ ~fault'
             /\ head' = NULL /\ size' = 0
             /\ max_nodes' = max_nodes /\ node_buf' = node_buf
             /\ free_top' = free_top /\ free_stack' = free_stack
             /\ DOMAIN mem' = DOMAIN mem
             /\ \A a \in DOMAIN mem : mem'[a].in_use = mem[a].in_use]_vars

\* a clear has returned on an arena with a free stack that holds every slot
\* in another order than after initialisation: the list had been used and
\* emptied before that clear (a clear of a non-empty arena list leaves its
\* slots off the stack)
C25_Witness ==
    /\ ret.op = "clear" /\ ~fault /\ head = NULL /\ size = 0
    /\ Pure /\ cfg.fast /\ max_nodes = MaxInitCap /\ free_top = max_nodes
    /\ free_stack[max_nodes] # 0

\* the operations C26 names
GuardedOps ==
    {"push_front", "push_back", "insert_before", "pop_front", "pop_back", "pop_at",
     "at", "find", "search", "remove_ptr", "remove_if", "remove_at", "foreach", "clear"}

C27_NullListRejected ==
    [][ret'.op = "null_list"
          => /\ ~fault'
             /\ ret'.val = 0
             /\ UNCHANGED <<head, size, node_buf, max_nodes, free_top, free_stack, mem>>]_vars

\* the slot a is free: it lies in the arena and its in_use flag is clear
FreeSlot(L, a) == a \in ArenaRange(L) /\ Valid(L, a) /\ L.mem[a].in_use = 0

\* C28: zerolist_free_node on a node of an intact list obtained from
\* zerolist_find releases that node and leaves a consistent list: the node is
\* no longer reachable from head, every reachable node is allocated and in
\* use and none of its links points at a free slot, and size is the length
\* of the ring; a second call on the same node does not put the slot index
\* on the free stack twice.
C28_FreeFoundNode ==
    [][/\ (ret'.op = "free_node" /\ Intact(S))
            => /\ ~fault'
               /\ LinksOK(S')
               /\ \A k \in 1 .. Len(Ring(S')) :
                     LET a == Ring(S')[k]
                     IN /\ a # ret'.arg[1]
                        /\ ~FreeSlot(S', a)
                        /\ ~FreeSlot(S', mem'[a].next)
                        /\ ~FreeSlot(S', mem'[a].prev)
               /\ size' = Len(Ring(S'))
       /\ ret'.op = "free_node_again"
            => \A j, k \in 1 .. free_top' :
                  (j # k /\ j <= Len(free_stack') /\ k <= Len(free_stack'))
                     => free_stack'[j] # free_stack'[k]]_vars

\* the indices of the arena slots this step put on the ring
TakenSlots == {i \in 0 .. (max_nodes - 1) : (node_buf + i) \in Added}

\* a push that succeeds with a slot of the arena, without growing it
ArenaPush ==
    /\ cfg.mode # "heap"
    /\ ret'.op \in PushOps
    /\ ret'.val = 1
    /\ node_buf' = node_buf /\ max_nodes' = max_nodes
    /\ TakenSlots # {}

\* the arena as ZEROLIST_INIT left it, but for its first k slots, handed out
FreshBut(k) ==
    /\ UsedSlots(S) = 0 .. (k - 1)
    /\ cfg.fast => /\ free_top = max_nodes - k
                   /\ \A j \in 1 .. free_top : free_stack[j] = max_nodes - j

\* the lowest index of a slot whose in_use flag is clear
LowestFree ==
    LET free == (0 .. (max_nodes - 1)) \ UsedSlots(S)
    IN CHOOSE i \in free : \A j \in free : i <= j

\* C29: slot selection is deterministic.  An arena as initialised hands out
\* slots 0, 1, 2, ... in that order.  With the free stack a pop or removal
\* leaves the released slot on top of the stack and a push takes the slot on
\* top of the stack, the one released last; with linear scan a push takes the
\* lowest slot whose in_use flag is clear.  In a fixed arena of capacity 3
\* that was full, with A and C in slots 0 and 2 and the slot 1 of B released
\* by a removal (with the free stack: the only entry of the stack),
\* push_back(D) puts D in slot 1 and the ring is A, C, D.
C29_SlotSelection ==
    [][/\ ArenaPush
            => /\ \A k \in 0 .. (max_nodes - 1) : FreshBut(k) => TakenSlots = {k}
               /\ cfg.fast => free_top > 0 /\ TakenSlots = {free_stack[free_top]}
               /\ ~cfg.fast => TakenSlots = {LowestFree}
       /\ (cfg.fast /\ ret'.op \in RemovalOps /\ ret'.val # 0
             /\ Removed \cap ArenaRange(S) # {})
            => /\ free_top' = free_top + 1
               /\ Removed = {node_buf + free_stack'[free_top']}
       /\ (cfg.mode = "fixed" /\ max_nodes = 3 /\ Ring(S) = <<node_buf, node_buf + 2>>
             /\ (cfg.fast => free_top = 1 /\ free_stack[1] = 1)
             /\ ret'.op = "push_back")
            => /\ ret'.val = 1
               /\ Ring(S') = <<node_buf, node_buf + 2, node_buf + 1>>
               /\ mem'[node_buf + 1].data = ret'.arg[1]]_vars

\* the push of D has returned: the ring runs through slots 0, 2, 1
C29_Witness ==
    /\ cfg.mode = "fixed" /\ max_nodes = 3 /\ ~fault
    /\ ret.op = "push_back" /\ ret.val = 1
    /\ Ring(S) = <<node_buf, node_buf + 2, node_buf + 1>>
    /\ RingData(S) = <<1, 1, 2>>

\* the nodes of the ring of L
RingNodes(L) == {Ring(L)[k] : k \in 1 .. Len(Ring(L))}

\* C30: with the free stack, after any sequence of push, insert_before, pop,
\* removal, clear, growth, shrink, destroy and reinit, no slot is both free
\* and allocated: the entries of the free stack below free_top are pairwise
\* different, each is below max_nodes and names a slot whose in_use flag is
\* clear, and none names a slot that is linked in the ring, so that an
\* acquisition never returns such a slot.  (A destroyed growable list has no
\* free stack, hence no entries.)
C30_FreeStackSound ==
    (cfg.fast /\ ~fault)
       => /\ Len(free_stack) > 0 => free_top <= Len(free_stack)
          /\ \A j, k \in 1 .. Min(free_top, Len(free_stack)) :
                j # k => free_stack[j] # free_stack[k]
          /\ \A k \in 1 .. Min(free_top, Len(free_stack)) :
                /\ free_stack[k] >= 0
                /\ free_stack[k] < max_nodes
                /\ Valid(S, node_buf + free_stack[k])
                /\ mem[node_buf + free_stack[k]].in_use = 0
                /\ (node_buf + free_stack[k]) \notin RingNodes(S)

\* C31: in the arena builds without fallback (fixed, growable), after any
\* sequence of push, insert_before, pop, removal, reverse, clear and growth,
\* a slot has its in_use flag set exactly when it is on the ring from head;
\* the ring lies in the arena, and the number of slots in use is size, so
\* that the scans over the slots meet exactly the nodes of the ring.
C31_InUseIffOnRing ==
    (Pure /\ ~fault)
       => /\ RingNodes(S) \subseteq ArenaRange(S)
          /\ \A i \in 0 .. (max_nodes - 1) :
                /\ Valid(S, node_buf + i)
                /\ (mem[node_buf + i].in_use = 1) <=> ((node_buf + i) \in RingNodes(S))
          /\ Cardinality(UsedSlots(S)) = size
          /\ Len(zerolist_foreach(S)) = Len(Ring(S))
          /\ \A d \in Payloads :
                Cardinality({k \in 1 .. Len(zerolist_foreach(S)) : zerolist_foreach(S)[k] = d})
                   = Cardinality({k \in 1 .. Len(Ring(S)) : RingData(S)[k] = d})

\* a ring of three that runs against the slot order, after a slot was reused
C31_Witness ==
    /\ Pure /\ ~fault /\ max_nodes = 3 /\ size = 2
    /\ Ring(S) = <<node_buf + 2, node_buf>>
    /\ mem[node_buf + 1].in_use = 0
    /\ ret.op \in RemovalOps

\* a push_front or insert_before on an intact list grows the arena and the
\* buffer moves
RelocatingInsert ==
    /\ cfg.mode = "expand"
    /\ Intact(S)
    /\ ret'.op \in {"push_front", "insert_before"}
    /\ max_nodes' > max_nodes
    /\ node_buf' # node_buf

\* C32: in growable mode, when push_front or insert_before grows the arena
\* and the buffer moves, the position taken before the allocation is found
\* again in the new buffer: the call succeeds without touching memory outside
\* the new buffer, the ring is intact, and the new node stands immediately
\* before the node intended (head, resp. the first node holding target_data).
C32_PositionSurvivesRelocation ==
    [][RelocatingInsert =>
         /\ ~fault'
         /\ ret'.val = 1
         /\ Intact(S')
         /\ RingNodes(S') \subseteq ArenaRange(S')
         /\ ret'.op = "push_front" => RingData(S') = <<ret'.arg[1]>> \o RingData(S)
         /\ ret'.op = "insert_before" =>
               RingData(S') = InsertAt(RingData(S), FirstMatch(RingData(S), {ret'.arg[1]}),
                                       ret'.arg[2])]_vars

\* the outcome of push_back(d1) followed by push_back(d2) on L
TwoPushes(L, d1, d2) ==
    zerolist_push_back(zerolist_push_back(L, d1, NoGrowth).L, d2, NoGrowth)

\* C33: on the fixed arena a list after zerolist_destroy and zerolist_reinit
\* behaves as the list zerolist_init_expand builds over the same buffer: the
\* same pushes return the same values, put their nodes in the same slots and
\* are visited by zerolist_foreach in the same order.
C33_ReinitAsFresh ==
    [][(cfg.mode = "fixed" /\ ret'.op = "reinit" /\ ret'.val = 1) =>
         \A d1, d2 \in Payloads :
            /\ zerolist_push_back(S', d1, NoGrowth).ok
                  = zerolist_push_back(zerolist_init_expand(node_buf', max_nodes'), d1, NoGrowth).ok
            /\ TwoPushes(S', d1, d2).ok
                  = TwoPushes(zerolist_init_expand(node_buf', max_nodes'), d1, d2).ok
            /\ Ring(TwoPushes(S', d1, d2).L)
                  = Ring(TwoPushes(zerolist_init_expand(node_buf', max_nodes'), d1, d2).L)
            /\ zerolist_foreach(TwoPushes(S', d1, d2).L)
                  = zerolist_foreach(TwoPushes(zerolist_init_expand(node_buf', max_nodes'), d1, d2).L)]_vars


\* C34: in the heap and fallback modes with the size counter, a successful
\* insertion into an intact list, also one that brings the list past
\* (ZEROLIST_TYPE)-1 nodes, leaves size equal to the number of nodes in the ring:
\* a non-empty list does not report size 0 and every index below the number of
\* nodes is accepted by zerolist_at
C34_SizeNeverWraps ==
    [][(/\ cfg.mode \in {"heap", "fallback"} /\ cfg.sizeEn
        /\ Intact(S) /\ ~fault'
        /\ ret'.op \in {"push_front", "push_back", "insert_before"} /\ ret'.val = 1) =>
         /\ size' = Len(Ring(S'))
         /\ zerolist_size(S') # 0
         /\ \A i \in 0 .. (Len(Ring(S')) - 1) : zerolist_at(S', i) \in Payloads]_vars

\* C35: zerolist_shrink_buffer on an empty growable list, whatever size is
\* requested (0 included), leaves a usable list: max_nodes is at least 1, every
\* slot of node_buf is allocated memory, and a push that follows succeeds
C35_ShrinkEmptyStaysUsable ==
    [][(/\ cfg.mode = "expand" /\ ret'.op = "shrink"
        /\ Intact(S) /\ head = NULL) =>
         /\ ~fault'
         /\ max_nodes' >= 1
         /\ Valid(S', node_buf') /\ SlotsValid(S')
         /\ \A d \in Payloads : \A o \in Answers(S') :
               LET r == zerolist_push_back(S', d, o) IN r.ok /\ ~r.L.fault]_vars

\* the capacity a request stands for: a request not above the live count n is
\* raised to 2n
AdjustedRequest(requested, n) == IF requested <= n THEN 2 * n ELSE requested

\* C36: zerolist_shrink_buffer is a no-op when the requested capacity, raised
\* to twice the live count where it is not above it, is not smaller than
\* max_nodes: it returns true and leaves node_buf, max_nodes, free_top, the free
\* stack, head and every link as they were
C36_ShrinkNoOp ==
    [][(/\ ret'.op = "shrink" /\ Intact(S)
        /\ AdjustedRequest(ret'.arg[1], Len(Ring(S))) >= max_nodes) =>
         /\ ret'.val = 1
         /\ S' = S]_vars

ReadOps == {"at", "find", "search", "foreach", "size", "for_each"}

MatchingNodes(L, M) == {n \in RingNodes(L) : L.mem[n].data \in M}

\* node is what a lookup for the payloads M must return on L: NULL when no node
\* of the ring matches, else a node of the ring that is allocated, in use if it
\* is an arena slot, and whose payload matches
Found(L, M, node) ==
    /\ (node # NULL) <=> (MatchingNodes(L, M) # {})
    /\ node # NULL =>
          /\ node \in MatchingNodes(L, M)
          /\ _zerolist_is_static_node(L, node) => NodeIsInUse(L, node)

\* C38: zerolist_find(target) and zerolist_search(target, cmp) return a node
\* exactly when a node of the ring matches (payload equal to target, resp. cmp
\* true); the node returned is on the ring from head and its payload matches,
\* it is never a released slot or a node removed earlier, in all four
\* allocation modes
C38_LookupFindsRingNode ==
    [][/\ (ret'.op = "find" /\ Intact(S)) => Found(S', {ret'.arg[1]}, ret'.val)
       /\ (ret'.op = "search" /\ ret'.arg[2] # NULL /\ Intact(S)) =>
             Found(S', ret'.arg[1], ret'.val)]_vars

\* zerolist_find(NULL) has returned NULL on a non-empty arena list one slot of
\* which was released (its payload is NULL, its flag 0)
C38_Witness ==
    /\ ret.op = "find" /\ ret.arg[1] = NULL /\ ret.val = NULL
    /\ Pure /\ head # NULL /\ Intact(S)
    /\ \E j \in 0 .. (max_nodes - 1) :
          mem[node_buf + j].in_use = 0 /\ mem[node_buf + j].data = NULL
====
